---- MODULE Spec2Model ----
(***************************************************************************)
(* Endfield Market Tracker: the capture worker (capture_worker.py), the    *)
(* text normalizer (data_extractor.py), the OCR region reader              *)
(* (ocr_engine.py), the storage manager (database/manager.py) and the      *)
(* ranking engine (analysis.py), as state machines.                        *)
(*                                                                         *)
(* Python values: an Optional[int] is a sequence, << >> for None and <<v>> *)
(* for the value v; a text is a sequence of one-character strings; an OCR  *)
(* result is a tagged record (none / str / int).                           *)
(***************************************************************************)
EXTENDS Integers, Sequences, FiniteSets, TLC

VARIABLES
    now,                  \* time.time(), in whole seconds
    pc,                   \* position of CaptureWorker.run: "none", "new", "checking",
                          \* "loop", "done"
    running,              \* CaptureWorker.running
    session_id,           \* CaptureWorker.session_id (0 is None)
    screen_capture,       \* CaptureWorker.screen_capture: "none", "open", "closed"
    current_product,      \* CaptureWorker.current_product (Optional ProductData)
    last_prices,          \* CaptureWorker.last_prices: set of [key, time, price]
    capture_count_value,  \* CaptureWorker.capture_count_value
    products,             \* table products, a row's id is its index
    readings,             \* table price_readings, a row's id is its index
    sessions,             \* table capture_sessions, a row's id is its index
    status_log,           \* kinds of status_update messages emitted so far
    errors,               \* number of error_occurred emissions
    resolution,           \* width and height of CaptureWorker.run, as the check reads
                          \* them and as the error message reports them; << >>
                          \* otherwise
    hist,                 \* the last two ticks of the loop, newest last: [t, f, odd],
                          \* f = 0 when capture_full_screen raised, else an index of
                          \* Frames; odd alternates from tick to tick
    runs,                 \* number of workers MainWindow.start_capture has created
    orm_raises,           \* whether the ORM raises on a detached, expired instance
    rank_in,              \* argument of rank_opportunities
    rank_out,             \* result of rank_opportunities
    last_call,            \* the method a direct call ran last ("none" in the program)
    fn_in,                \* a function under direct call and its arguments
    fn_out,               \* << >> before that call, <<result>> after it
    ui,                   \* MainWindow under threads: capture_worker (0 is None),
                          \* the two buttons, the worker whose wait(3000) the UI
                          \* thread is blocked in (0: none) and for how long, the
                          \* error_occurred emissions queued for show_error
    th                    \* the CaptureWorker threads start_capture created, by
                          \* number: position in run, running, session_id,
                          \* screen_capture, the time the tick in progress has
                          \* taken, and what the thread has done so far

workerVars == <<pc, running, session_id, screen_capture, current_product,
                last_prices, capture_count_value, status_log, errors, hist,
                resolution>>
dbVars == <<products, readings, sessions>>
callVars == <<rank_in, rank_out, last_call>>
fnVars == <<fn_in, fn_out>>
thVars == <<ui, th>>
vars == <<now, runs, orm_raises, workerVars, dbVars, callVars, fnVars, thVars>>

----------------------------------------------------------------------------
(* Bounds of the model *)

MaxTime == 17
MaxRuns == 2
MaxRows == 2
MaxRank == 3

----------------------------------------------------------------------------
(* Python values *)

None == << >>
Some(v) == <<v>>
Val(o) == o[1]
\* truth value of an Optional[int]: None and 0 are false
Truthy(o) == o # None /\ o[1] # 0

Abs(x) == IF x < 0 THEN -x ELSE x

----------------------------------------------------------------------------
(* Texts: sequences of one-character strings *)

UpperLetters == <<"A","B","C","D","E","F","G","H","I","J","K","L","M",
                  "N","O","P","Q","R","S","T","U","V","W","X","Y","Z">>
LowerLetters == <<"a","b","c","d","e","f","g","h","i","j","k","l","m",
                  "n","o","p","q","r","s","t","u","v","w","x","y","z">>
DigitChars == <<"0","1","2","3","4","5","6","7","8","9">>

IsDigit(c) == \E i \in 1..10 : DigitChars[i] = c
DigitVal(c) == (CHOOSE i \in 1..10 : DigitChars[i] = c) - 1
IsSpace(c) == c = " "

\* str.lower() on one character
LowerChar(c) ==
    IF \E i \in 1..26 : UpperLetters[i] = c
    THEN LowerLetters[CHOOSE i \in 1..26 : UpperLetters[i] = c]
    ELSE c
Lower(t) == [i \in 1..Len(t) |-> LowerChar(t[i])]

\* the positions at which pattern p occurs in t
OccursAt(t, p, i) == i + Len(p) - 1 <= Len(t) /\ SubSeq(t, i, i + Len(p) - 1) = p
Contains(t, p) == \E i \in 1..(Len(t) + 1) : OccursAt(t, p, i)

\* keep the digits of t: re.sub(r'[^\d]', '', t)
OnlyDigits(t) == SelectSeq(t, IsDigit)

\* str.strip()
RECURSIVE LStrip(_)
LStrip(t) == IF t # << >> /\ IsSpace(Head(t)) THEN LStrip(Tail(t)) ELSE t
RECURSIVE RStrip(_)
RStrip(t) ==
    IF t # << >> /\ IsSpace(t[Len(t)]) THEN RStrip(SubSeq(t, 1, Len(t) - 1)) ELSE t
Strip(t) == RStrip(LStrip(t))

\* str.replace(p, ""): delete the occurrences of p, left to right
RECURSIVE Remove(_, _)
Remove(t, p) ==
    IF t = << >> THEN << >>
    ELSE IF OccursAt(t, p, 1) THEN Remove(SubSeq(t, Len(p) + 1, Len(t)), p)
    ELSE <<Head(t)>> \o Remove(Tail(t), p)

\* int() of a text of decimal digits
RECURSIVE DigitsToInt(_)
DigitsToInt(t) ==
    IF t = << >> THEN 0
    ELSE 10 * DigitsToInt(SubSeq(t, 1, Len(t) - 1)) + DigitVal(t[Len(t)])

\* str() of a non-negative int
RECURSIVE IntToText(_)
IntToText(n) ==
    IF n < 10 THEN <<DigitChars[n + 1]>>
    ELSE IntToText(n \div 10) \o <<DigitChars[(n % 10) + 1]>>

\* the first maximal run of digits of t starting at or after position i
RECURSIVE DigitRun(_, _)
DigitRun(t, i) ==
    IF i > Len(t) \/ ~IsDigit(t[i]) THEN << >> ELSE <<t[i]>> \o DigitRun(t, i + 1)

----------------------------------------------------------------------------
(* OCR results: what a dict of extract_prices holds under a key *)

NoneV == [tag |-> "none"]
StrV(s) == [tag |-> "str", s |-> s]
IntV(n) == [tag |-> "int", n |-> n]

\* str(value)
Str(v) ==
    CASE v.tag = "none" -> <<"N", "o", "n", "e">>
      [] v.tag = "str" -> v.s
      [] v.tag = "int" -> IntToText(v.n)

\* dict.get(key, default)
Get(d, k, default) == IF k \in DOMAIN d THEN d[k] ELSE default

----------------------------------------------------------------------------
(* constants.py *)

Wuling == "wuling"
Valley == "valley"

\* the product names; "s-caron" stands for the one letter s with caron
WulingFrozenPears == <<"W", "u", "l", "i", "n", "g", " ", "F", "r", "o", "z", "e", "n", " ", "P", "e", "a", "r", "s", " ", "[", "p", "k", "g", "]">>
WuxiaMovies == <<"W", "u", "x", "i", "a", " ", "M", "o", "v", "i", "e", "s", " ", "[", "p", "k", "g", "]">>
Nymphsprout == <<"N", "y", "m", "p", "h", "s", "p", "r", "o", "u", "t", " ", "[", "p", "k", "g", "]">>
EurekaTincture == <<"E", "u", "r", "e", "k", "a", " ", "A", "n", "t", "i", "-", "s", "m", "o", "g", " ", "T", "i", "n", "c", "t", "u", "r", "e", " ", "[", "p", "k", "g", "]">>
AnkhorillingKitchenware == <<"A", "n", "k", "h", "o", "r", "i", "l", "l", "i", "n", "g", " ", "K", "i", "t", "c", "h", "e", "n", "w", "a", "r", "e", " ", "[", "p", "k", "g", "]">>
Musbeast == <<"M", "u", "s", "b", "e", "a", "s", "t", " ", "S", "c", "r", "i", "m", "s", "h", "a", "w", " ", "D", "a", "n", "g", "l", "e", "s", " ", "[", "p", "k", "g", "]">>
WitchcraftMiningDrill == <<"W", "i", "t", "c", "h", "c", "r", "a", "f", "t", " ", "M", "i", "n", "i", "n", "g", " ", "D", "r", "i", "l", "l", " ", "[", "p", "k", "g", "]">>
AggeloiWarTins == <<"A", "g", "g", "e", "l", "o", "i", " ", "W", "a", "r", " ", "T", "i", "n", "s", " ", "[", "p", "k", "g", "]">>
ValleyFillets == <<"V", "a", "l", "l", "e", "y", " ", "H", "y", "d", "r", "o", "c", "u", "l", "t", "u", "r", "e", " ", "F", "i", "l", "l", "e", "t", "s", " ", "[", "p", "k", "g", "]">>
UnitySyrup == <<"U", "n", "i", "t", "y", " ", "S", "y", "r", "u", "p", " ", "[", "p", "k", "g", "]">>
OriginiumSaplings == <<"O", "r", "i", "g", "i", "n", "i", "u", "m", " ", "S", "a", "p", "l", "i", "n", "g", "s", " ", "[", "p", "k", "g", "]">>
SesqamamKnucklebones == <<"S", "e", "s-caron", "'", "q", "a", "m", "a", "m", " ", "K", "n", "u", "c", "k", "l", "e", "b", "o", "n", "e", "s", " ", "[", "p", "k", "g", "]">>
AstarronCrystals == <<"A", "s", "t", "a", "r", "r", "o", "n", " ", "C", "r", "y", "s", "t", "a", "l", "s", " ", "[", "p", "k", "g", "]">>
VigilantPickaxes == <<"V", "i", "g", "i", "l", "a", "n", "t", " ", "P", "i", "c", "k", "a", "x", "e", "s", " ", "[", "p", "k", "g", "]">>
HardNogginHelmets == <<"H", "a", "r", "d", " ", "N", "o", "g", "g", "i", "n", " ", "H", "e", "l", "m", "e", "t", "s", " ", "[", "p", "k", "g", "]">>
ScrapToyBlocks == <<"S", "c", "r", "a", "p", " ", "T", "o", "y", " ", "B", "l", "o", "c", "k", "s", " ", "[", "p", "k", "g", "]">>

\* PRODUCT_REGIONS, in insertion order
PRODUCT_REGIONS ==
    << [name |-> WulingFrozenPears, region |-> Wuling],
       [name |-> WuxiaMovies, region |-> Wuling],
       [name |-> Nymphsprout, region |-> Wuling],
       [name |-> EurekaTincture, region |-> Wuling],
       [name |-> AnkhorillingKitchenware, region |-> Valley],
       [name |-> Musbeast, region |-> Valley],
       [name |-> WitchcraftMiningDrill, region |-> Valley],
       [name |-> AggeloiWarTins, region |-> Valley],
       [name |-> ValleyFillets, region |-> Valley],
       [name |-> UnitySyrup, region |-> Valley],
       [name |-> OriginiumSaplings, region |-> Valley],
       [name |-> SesqamamKnucklebones, region |-> Valley],
       [name |-> AstarronCrystals, region |-> Valley],
       [name |-> VigilantPickaxes, region |-> Valley],
       [name |-> HardNogginHelmets, region |-> Valley],
       [name |-> ScrapToyBlocks, region |-> Valley] >>

KNOWN_PRODUCTS == [i \in 1..Len(PRODUCT_REGIONS) |-> PRODUCT_REGIONS[i].name]

DEFAULT_ROIS ==
    ("product_name" :> [x |-> 963, y |-> 366, w |-> 740, h |-> 56]) @@
    ("local_price" :> [x |-> 2038, y |-> 480, w |-> 104, h |-> 46]) @@
    ("friend_price" :> [x |-> 1590, y |-> 590, w |-> 96, h |-> 56]) @@
    ("average_cost" :> [x |-> 723, y |-> 857, w |-> 102, h |-> 43]) @@
    ("quantity_owned" :> [x |-> 712, y |-> 812, w |-> 94, h |-> 30])

\* AUTO_DETECT['price_change_threshold']
price_change_threshold == 50
\* the 2.0 seconds of _should_capture
recapture_seconds == 2
\* CAPTURE_SETTINGS['resolution'] and the 10% tolerance of run
target_w == 2560
target_h == 1440

----------------------------------------------------------------------------
(* ocr_engine.py.  A frame is a screenshot: its shape and, for each named  *)
(* region, the text extract_text reads in that region's crop ("" when the  *)
(* reader finds nothing or is below the confidence threshold).             *)

\* OCREngine.extract_number on a crop whose text is t
extract_number(t) ==
    LET cleaned == OnlyDigits(t)
    IN IF cleaned # << >> THEN IntV(DigitsToInt(cleaned)) ELSE NoneV

\* 'price' in key or 'cost' in key
IsNumberKey(key) == key \in {"local_price", "friend_price", "average_cost"}

\* screenshot[a:b] along an axis of n pixels: the number of pixels of the
\* slice, a negative index counting from the far edge
SliceIndex(i, n) == IF i < 0 THEN (IF i + n < 0 THEN 0 ELSE i + n)
                    ELSE IF i > n THEN n ELSE i
SliceLen(a, b, n) ==
    IF SliceIndex(b, n) > SliceIndex(a, n) THEN SliceIndex(b, n) - SliceIndex(a, n) ELSE 0

\* the dict that stands for an exception leaving extract_prices
Raised(exception) == "raise" :> exception

\* what the OCR finds in the region of roi: the text shown under key, or,
\* for a slice that starts at the far edge, what the screenshot shows there
region_text(frame, key, roi) ==
    IF roi.x < 0 \/ roi.y < 0
    THEN (IF "elsewhere" \in DOMAIN frame THEN frame.elsewhere ELSE << >>)
    ELSE frame.text[key]

\* OCREngine.extract_prices.  A region that passes the bounds check and whose
\* slice is empty makes cv2.cvtColor raise in preprocess_image; nothing in
\* extract_prices catches it.
extract_prices(frame, rois) ==
    LET out_of_bounds(roi) == roi.y + roi.h > frame.h \/ roi.x + roi.w > frame.w
        empty(roi) == \/ SliceLen(roi.y, roi.y + roi.h, frame.h) = 0
                      \/ SliceLen(roi.x, roi.x + roi.w, frame.w) = 0
    IN IF \E key \in DOMAIN rois : ~out_of_bounds(rois[key]) /\ empty(rois[key])
       THEN Raised("cv2.error")
       ELSE [key \in DOMAIN rois |->
                IF out_of_bounds(rois[key]) THEN NoneV
                ELSE IF IsNumberKey(key)
                THEN extract_number(region_text(frame, key, rois[key]))
                ELSE StrV(region_text(frame, key, rois[key]))]

----------------------------------------------------------------------------
(* data_extractor.py *)

PkgTag == <<"[", "p", "k", "g", "]">>
OwnedWord == <<"o", "w", "n", "e", "d">>
WulingWord == <<"w", "u", "l", "i", "n", "g">>
HzWord == <<"h", "z">>
ValleyWord == <<"v", "a", "l", "l", "e", "y">>

\* extract_product_name without the search for a known product
extract_product_name_cleaned(text) ==
    LET cleaned == Strip(Remove(Strip(text), PkgTag))
    IN IF Len(cleaned) > 3 THEN cleaned ELSE << >>

\* DataExtractor.extract_product_name; the empty text stands for None
extract_product_name(text) ==
    LET text_lower == Lower(text)
        hits == {i \in 1..Len(KNOWN_PRODUCTS) :
                    Contains(text_lower, Lower(KNOWN_PRODUCTS[i]))}
        cleaned == Strip(Remove(Strip(text), PkgTag))
    IN IF hits # {} THEN KNOWN_PRODUCTS[CHOOSE i \in hits : \A j \in hits : i <= j]
       ELSE IF Len(cleaned) > 3 THEN cleaned
       ELSE << >>

\* extract_price reading the first run of digits only
extract_price_first_run(v) ==
    IF v.tag = "int" THEN Some(v.n)
    ELSE IF v.tag = "none" \/ v.s = << >> THEN None
    ELSE LET starts == {i \in 1..Len(v.s) : IsDigit(v.s[i])}
             cleaned == IF starts = {} THEN << >>
                        ELSE DigitRun(v.s, CHOOSE i \in starts : \A j \in starts : i <= j)
         IN IF cleaned # << >> THEN Some(DigitsToInt(cleaned)) ELSE None

\* DataExtractor.extract_price
extract_price(v) ==
    IF v.tag = "int" THEN Some(v.n)
    ELSE IF v.tag = "none" \/ v.s = << >> THEN None
    ELSE LET cleaned == OnlyDigits(Str(v))
         IN IF cleaned # << >> THEN Some(DigitsToInt(cleaned)) ELSE None

\* the first position at or after i of t that holds no space
RECURSIVE SkipSpaces(_, _)
SkipSpaces(t, i) == IF i <= Len(t) /\ IsSpace(t[i]) THEN SkipSpaces(t, i + 1) ELSE i

\* DataExtractor.extract_quantity
extract_quantity(text) ==
    LET low == Lower(text)
        \* re.search(r'Owned[\s]*(\d+)', text, re.IGNORECASE)
        labelled == {i \in 1..Len(text) :
                        /\ OccursAt(low, OwnedWord, i)
                        /\ DigitRun(text, SkipSpaces(text, i + 5)) # << >>}
        numbers == {i \in 1..Len(text) : IsDigit(text[i])}
    IN IF text = << >> THEN 0
       ELSE IF labelled # {}
       THEN LET i == CHOOSE k \in labelled : \A j \in labelled : k <= j
            IN DigitsToInt(DigitRun(text, SkipSpaces(text, i + 5)))
       ELSE IF numbers # {}
       THEN DigitsToInt(DigitRun(text, CHOOSE k \in numbers : \A j \in numbers : k <= j))
       ELSE 0

\* DataExtractor.extract_percentage: the text of the matched group
\* ([+-]?\d+\.?\d*) before a '%', leftmost match; None without a match
PercentAt(t, i) ==
    LET s == IF i <= Len(t) /\ t[i] \in {"+", "-"} THEN i + 1 ELSE i
        d1 == DigitRun(t, s)
        e1 == s + Len(d1)
        dot == e1 <= Len(t) /\ t[e1] = "."
        d2 == IF dot THEN DigitRun(t, e1 + 1) ELSE << >>
        e2 == IF dot THEN e1 + 1 + Len(d2) ELSE e1
    IN IF d1 = << >> THEN 0
       ELSE IF e1 <= Len(t) /\ t[e1] = "%" THEN e1
       ELSE IF e2 <= Len(t) /\ t[e2] = "%" THEN e2
       ELSE 0
extract_percentage(text) ==
    LET starts == {i \in 1..Len(text) : PercentAt(text, i) # 0}
    IN IF starts = {} THEN None
       ELSE LET i == CHOOSE k \in starts : \A j \in starts : k <= j
            IN Some(SubSeq(text, i, PercentAt(text, i) - 1))

\* DataExtractor.determine_region
determine_region(name) ==
    LET rows == {i \in 1..Len(PRODUCT_REGIONS) : PRODUCT_REGIONS[i].name = name}
        text_lower == Lower(name)
    IN IF rows # {} THEN PRODUCT_REGIONS[CHOOSE i \in rows : TRUE].region
       ELSE IF Contains(text_lower, WulingWord) \/ Contains(text_lower, HzWord) THEN Wuling
       ELSE IF Contains(text_lower, ValleyWord) THEN Valley
       ELSE Wuling

\* DataExtractor.process_ocr_results: None, or <<ProductData>>
process_ocr_results(ocr_results) ==
    LET name_text == Str(Get(ocr_results, "product_name", StrV(<< >>)))
        name == extract_product_name(name_text)
        local_price == extract_price(Get(ocr_results, "local_price", NoneV))
        friend_raw == extract_price(Get(ocr_results, "friend_price", NoneV))
        friend_price == IF Truthy(friend_raw) /\ Val(friend_raw) > 9000
                        THEN None ELSE friend_raw
    IN IF name = << >> /\ ~Truthy(friend_price) THEN None
       ELSE Some([name |-> name,
                  region |-> IF name # << >> THEN determine_region(name) ELSE "",
                  local_price |-> IF Truthy(local_price) THEN Val(local_price) ELSE 0,
                  friend_price |-> friend_price,
                  average_cost |-> extract_price(Get(ocr_results, "average_cost", NoneV)),
                  quantity_owned |->
                      extract_quantity(Str(Get(ocr_results, "quantity_owned", StrV(<< >>)))),
                  vs_local_percent |->
                      extract_percentage(Str(Get(ocr_results, "vs_local", StrV(<< >>)))),
                  vs_owned_percent |->
                      extract_percentage(Str(Get(ocr_results, "vs_owned", StrV(<< >>)))),
                  reading_id |-> None])

\* DataExtractor.is_valid_reading
is_valid_reading(data) ==
    \/ (data.name # << >> /\ Len(data.name) > 2)
    \/ (Truthy(data.friend_price) /\ Val(data.friend_price) > 0)

----------------------------------------------------------------------------
(* database/manager.py.  A database is a record of the three tables; an    *)
(* operation returns the database after its commit.                        *)

DB == [products |-> products, readings |-> readings, sessions |-> sessions]

\* get_or_create_product without the query for the name
get_or_create_product_always_creates(db, name, region) ==
    [db |-> [db EXCEPT !.products =
                Append(@, [name |-> name, region |-> region,
                           highest_difference_ever |-> 0])],
     id |-> Len(db.products) + 1,
     created |-> TRUE]

\* DatabaseManager.get_or_create_product: the database, the product's id and
\* whether this call created it
get_or_create_product(db, name, region) ==
    LET found == {i \in 1..Len(db.products) : db.products[i].name = name}
    IN IF found # {}
       THEN [db |-> db, id |-> CHOOSE i \in found : \A j \in found : i <= j,
             created |-> FALSE]
       ELSE [db |-> [db EXCEPT !.products =
                        Append(@, [name |-> name, region |-> region,
                                   highest_difference_ever |-> 0])],
             id |-> Len(db.products) + 1,
             created |-> TRUE]

\* update_product_high_difference without its comparison: the column is
\* overwritten by every call
update_product_high_difference_always(db, product_id, difference) ==
    IF product_id \in 1..Len(db.products)
    THEN [db EXCEPT !.products[product_id].highest_difference_ever = difference]
    ELSE db

\* DatabaseManager.update_product_high_difference
update_product_high_difference(db, product_id, difference) ==
    IF /\ product_id \in 1..Len(db.products)
       /\ difference > db.products[product_id].highest_difference_ever
    THEN [db EXCEPT !.products[product_id].highest_difference_ever = difference]
    ELSE db

\* DatabaseManager.start_session: the database and the new session's id
start_session(db) ==
    [db |-> [db EXCEPT !.sessions =
                Append(@, [status |-> "active", goods_captured |-> 0, ended |-> 0])],
     id |-> Len(db.sessions) + 1]

\* DatabaseManager.end_session; ended counts the writes of end_time
end_session(db, sid, status) ==
    IF sid \in 1..Len(db.sessions)
    THEN [db EXCEPT !.sessions[sid].status = status,
                    !.sessions[sid].ended = @ + 1]
    ELSE db

\* DatabaseManager.increment_session_goods
increment_session_goods(db, sid) ==
    IF sid \in 1..Len(db.sessions)
    THEN [db EXCEPT !.sessions[sid].goods_captured = @ + 1]
    ELSE db

\* the difference with its operands exchanged
absolute_diff_of_swapped(local_price, friend_price) ==
    IF Truthy(friend_price) /\ local_price # 0
    THEN Some(local_price - Val(friend_price))
    ELSE None

\* the difference save_price_reading stores: None unless both prices are truthy
absolute_diff_of(local_price, friend_price) ==
    IF Truthy(friend_price) /\ local_price # 0
    THEN Some(Val(friend_price) - local_price)
    ELSE None

\* DatabaseManager.save_price_reading.  a: the keyword arguments, t: the
\* timestamp default.  The Product that get_or_create_product returns was
\* committed (which expires it) when created by this call, and its session is
\* closed: reading product.highest_difference_ever or product.id then either
\* refreshes or raises, as the ORM decides (detached_raises).  Result: the
\* database, the id of the reading (0 when raised) and whether it raised.
save_price_reading(db, a, t, detached_raises) ==
    LET got == get_or_create_product(db, a.product_name, a.region)
        absolute_diff == absolute_diff_of(a.local_price, a.friend_price)
        db1 == IF /\ absolute_diff # None
                  /\ Val(absolute_diff) > got.db.products[got.id].highest_difference_ever
               THEN update_product_high_difference(got.db, got.id, Val(absolute_diff))
               ELSE got.db
        reading == [product_id |-> got.id,
                    session_id |-> a.session_id,
                    timestamp |-> t,
                    region |-> a.region,
                    local_price |-> a.local_price,
                    friend_price |-> a.friend_price,
                    average_cost |-> a.average_cost,
                    quantity_owned |-> a.quantity_owned,
                    vs_local_percent |-> a.vs_local_percent,
                    vs_owned_percent |-> a.vs_owned_percent,
                    absolute_difference |-> absolute_diff]
        db2 == [db1 EXCEPT !.readings = Append(@, reading)]
        db3 == IF a.session_id # 0 THEN increment_session_goods(db2, a.session_id)
               ELSE db2
    IN IF got.created /\ detached_raises
       THEN [db |-> got.db, id |-> 0, raised |-> TRUE]
       ELSE [db |-> db3, id |-> Len(db2.readings), raised |-> FALSE]

----------------------------------------------------------------------------
(* The screens the game can show *)

NoText == [key \in {"product_name", "local_price", "friend_price", "average_cost",
                    "quantity_owned", "region_indicator", "vs_local", "vs_owned"}
              |-> << >>]

MainScreen(name, local, avg, qty) ==
    [h |-> target_h, w |-> target_w,
     text |-> [NoText EXCEPT !["product_name"] = name, !["local_price"] = local,
                             !["average_cost"] = avg, !["quantity_owned"] = qty]]

FriendScreen(friend) ==
    [h |-> target_h, w |-> target_w,
     text |-> [NoText EXCEPT !["friend_price"] = friend]]

Frames ==
    << [h |-> target_h, w |-> target_w, text |-> NoText],
       MainScreen(Musbeast, <<"1", "4", "4", "6">>, <<"1", "0", "6", "7">>, <<"1", "3", "8">>),
       MainScreen(Musbeast, <<"1", "4", "4", "6">>, <<>>, <<"1", "4", "0">>),
       MainScreen(UnitySyrup, <<"9", "0", "0">>, <<>>, <<>>),
       FriendScreen(<<"3", "6", "8", "0">>),
       FriendScreen(<<"4", "0", "0", "0">>) >>

\* what get_screen_resolution can return
Resolutions == {<<2560, 1440>>, <<2400, 1400>>, <<1920, 1080>>, <<2560, 1080>>}

----------------------------------------------------------------------------
(* core/capture_worker.py.  The methods are operators on the record st of  *)
(* what they read and write: the worker's fields, the signals emitted and  *)
(* the database; st.raised says an exception is propagating.               *)

StatusKinds == {"initializing", "ready", "captured", "updated", "session_ended"}

\* status_update.emit(kind)
Emit(st, kind) == [st EXCEPT !.status_log[kind] = @ + 1]

\* the attributes DatabaseManager.__init__ sets
DatabaseManagerAttrs == {"engine"}

\* f"{product_data.name}_{product_data.local_price}"
product_key_of(product_data) == <<product_data.name, product_data.local_price>>

\* _detect_product_screen reading every calibrated region, the friend price
\* included, and looking up no region the table lacks
detect_product_screen_every_roi(frame) ==
    LET ocr_results == extract_prices(frame, DEFAULT_ROIS)
        product_data == process_ocr_results(ocr_results)
    IN IF product_data # None /\ is_valid_reading(Val(product_data)) THEN product_data
       ELSE None

\* CaptureWorker._detect_product_screen: None, or <<ProductData>>.  A key
\* DEFAULT_ROIS lacks raises KeyError inside the try: the method returns None.
detect_product_screen(frame) ==
    LET wanted == {"product_name", "local_price", "average_cost", "quantity_owned"}
        rois == [key \in wanted |-> DEFAULT_ROIS[key]]
        ocr_results == extract_prices(frame, rois)
        with_region == ("region_text" :> StrV(frame.text["region_indicator"])) @@ ocr_results
        product_data == process_ocr_results(with_region)
    IN IF ~(wanted \subseteq DOMAIN DEFAULT_ROIS) THEN None
       ELSE IF "raise" \in DOMAIN ocr_results THEN None
       ELSE IF "region_indicator" \notin DOMAIN DEFAULT_ROIS THEN None
       ELSE IF product_data # None /\ is_valid_reading(Val(product_data)) THEN product_data
       ELSE None

\* _detect_friend_screen reading the friend_price region alone
detect_friend_screen_one_roi(frame) ==
    LET rois == [key \in {"friend_price"} |-> DEFAULT_ROIS[key]]
        ocr_results == extract_prices(frame, rois)
        fp == ocr_results["friend_price"]
    IN IF fp.tag = "int" /\ fp.n # 0
       THEN Some([friend_price |-> fp.n, vs_local |-> NoneV, vs_owned |-> NoneV])
       ELSE None

\* CaptureWorker._detect_friend_screen: None, or <<friend_data>>
detect_friend_screen(frame) ==
    LET wanted == {"friend_price", "vs_local", "vs_owned"}
        rois == [key \in wanted |-> DEFAULT_ROIS[key]]
        ocr_results == extract_prices(frame, rois)
        fp == ocr_results["friend_price"]
    IN IF ~(wanted \subseteq DOMAIN DEFAULT_ROIS) THEN None
       ELSE IF "raise" \in DOMAIN ocr_results THEN None
       ELSE IF fp.tag = "int" /\ fp.n # 0
       THEN Some([friend_price |-> fp.n,
                  vs_local |-> ocr_results["vs_local"],
                  vs_owned |-> ocr_results["vs_owned"]])
       ELSE None

\* what the two detections return on each screen
DetectedProduct == [f \in 1..Len(Frames) |-> detect_product_screen(Frames[f])]
DetectedFriend == [f \in 1..Len(Frames) |-> detect_friend_screen(Frames[f])]

\* CaptureWorker._should_capture
should_capture(st, product_key, product_data, t) ==
    IF product_key \in DOMAIN st.last_prices
    THEN LET last_time == st.last_prices[product_key][1]
             last_price == st.last_prices[product_key][2]
         IN IF t - last_time < recapture_seconds THEN FALSE
            ELSE IF Abs(product_data.local_price - last_price) < price_change_threshold
            THEN FALSE
            ELSE TRUE
    ELSE TRUE

\* CaptureWorker._capture_product.  reading.id is read from a committed
\* instance whose session save_price_reading has closed (detached_raises).
capture_product(st, product_data, sid, t, detached_raises) ==
    LET st1 == [st EXCEPT !.current_product = Some(product_data),
                          !.last_prices = (product_key_of(product_data) :>
                                              <<t, product_data.local_price>>) @@ @]
        saved == save_price_reading(
                    [products |-> st.products, readings |-> st.readings,
                     sessions |-> st.sessions],
                    [product_name |-> product_data.name,
                     region |-> product_data.region,
                     local_price |-> product_data.local_price,
                     friend_price |-> None,
                     average_cost |-> product_data.average_cost,
                     quantity_owned |-> product_data.quantity_owned,
                     vs_local_percent |-> product_data.vs_local_percent,
                     vs_owned_percent |-> product_data.vs_owned_percent,
                     session_id |-> sid],
                    t, detached_raises)
        st2 == [st1 EXCEPT !.products = saved.db.products,
                           !.readings = saved.db.readings,
                           !.sessions = saved.db.sessions]
        st3 == [st2 EXCEPT !.current_product =
                               Some([product_data EXCEPT !.reading_id = Some(saved.id)]),
                           !.capture_count_value = @ + 1]
    IN IF saved.raised \/ detached_raises THEN [st2 EXCEPT !.raised = TRUE]
       ELSE Emit(st3, "captured")

\* a late update that reaches the reading and writes the friend price over
\* its local price as well
update_with_friend_price_overwrites_local(st, friend_data) ==
    LET cp == Val(st.current_product)
        rid == IF cp.reading_id = None THEN 0 ELSE Val(cp.reading_id)
    IN IF st.current_product = None THEN st
       ELSE IF rid \in 1..Len(st.readings)
       THEN Emit([st EXCEPT !.readings[rid].friend_price = Some(friend_data.friend_price),
                            !.readings[rid].local_price = friend_data.friend_price],
                 "updated")
       ELSE st

\* CaptureWorker._update_with_friend_price.  self.db_manager.session is not an
\* attribute of DatabaseManager: the AttributeError is caught by the method's
\* except.  The emit of six arguments on the seven-argument signal raises
\* after the commit and is caught as well.
update_with_friend_price(st, friend_data) ==
    LET cp == Val(st.current_product)
        rid == IF cp.reading_id = None THEN 0 ELSE Val(cp.reading_id)
        r == st.readings[rid]
        r1 == [r EXCEPT !.friend_price = Some(friend_data.friend_price),
                        !.vs_local_percent = Some(friend_data.vs_local),
                        !.vs_owned_percent = Some(friend_data.vs_owned)]
        r2 == IF r1.friend_price[1] # 0 /\ r1.local_price # 0
              THEN [r1 EXCEPT !.absolute_difference =
                                 Some(r1.friend_price[1] - r1.local_price)]
              ELSE r1
    IN IF st.current_product = None THEN st
       ELSE IF "session" \notin DatabaseManagerAttrs THEN st
       ELSE IF rid \in 1..Len(st.readings)
       THEN Emit([st EXCEPT !.readings[rid] = r2], "updated")
       ELSE st

\* CaptureWorker._process_frame; product_data and friend_data are what
\* _detect_product_screen and _detect_friend_screen return on the screenshot
process_frame(st, product_data, friend_data, sid, t, detached_raises) ==
    LET st1 == IF /\ product_data # None
                  /\ should_capture(st, product_key_of(Val(product_data)),
                                    Val(product_data), t)
               THEN capture_product(st, Val(product_data), sid, t, detached_raises)
               ELSE st
    IN IF st1.raised THEN st1
       ELSE IF friend_data # None /\ st1.current_product # None
       THEN update_with_friend_price(st1, Val(friend_data))
       ELSE st1

cleanup(st, sid, is_running) ==
    LET ended == IF sid # 0
                 THEN end_session([products |-> st.products, readings |-> st.readings,
                                   sessions |-> st.sessions],
                                  sid, IF ~is_running THEN "completed" ELSE "error")
                 ELSE [products |-> st.products, readings |-> st.readings,
                       sessions |-> st.sessions]
    IN Emit([st EXCEPT !.sessions = ended.sessions], "session_ended")

\* one iteration of the loop of CaptureWorker.run on a screenshot whose
\* detections returned product_data and friend_data: an exception leaving
\* _process_frame is reported by the except of run and ends the loop through
\* _cleanup; errors counts the error_occurred emissions, continues says the
\* loop goes on to its next test of self.running
loop_iteration(st, product_data, friend_data, sid, t, detached_raises, is_running) ==
    LET st1 == process_frame(st, product_data, friend_data, sid, t, detached_raises)
    IN IF st1.raised
       THEN [st |-> cleanup(st1, sid, is_running), errors |-> 1, continues |-> FALSE]
       ELSE [st |-> st1, errors |-> 0, continues |-> TRUE]

----------------------------------------------------------------------------
(* core/analysis.py *)

\* _generate_recommendation with the thresholds included in the upper tier
generate_recommendation_inclusive(profit, quantity_owned) ==
    IF profit <= 0 THEN "Avoid - No profit opportunity"
    ELSE IF profit >= 2000
    THEN (IF quantity_owned > 0 THEN "SELL NOW - Excellent opportunity!"
          ELSE "BUY - Exceptional profit potential")
    ELSE IF profit >= 1000
    THEN (IF quantity_owned > 0 THEN "Sell - Good opportunity"
          ELSE "Buy - Good profit potential")
    ELSE IF profit >= 500 THEN "Consider - Moderate opportunity"
    ELSE "Low priority - Small margin"

\* PriceAnalyzer._generate_recommendation
generate_recommendation(profit, quantity_owned) ==
    IF profit <= 0 THEN "Avoid - No profit opportunity"
    ELSE IF profit > 2000
    THEN (IF quantity_owned > 0 THEN "SELL NOW - Excellent opportunity!"
          ELSE "BUY - Exceptional profit potential")
    ELSE IF profit > 1000
    THEN (IF quantity_owned > 0 THEN "Sell - Good opportunity"
          ELSE "Buy - Good profit potential")
    ELSE IF profit > 500 THEN "Consider - Moderate opportunity"
    ELSE "Low priority - Small margin"

\* the TradeOpportunity with the total always multiplied by the quantity
opportunity_of_times_quantity(reading) ==
    LET profit == Val(reading.friend_price) - reading.local_price
    IN [product_name |-> reading.product_name,
        region |-> reading.region,
        local_price |-> reading.local_price,
        friend_price |-> Val(reading.friend_price),
        absolute_profit |-> profit,
        profit_per_unit |-> profit,
        quantity_owned |-> reading.quantity_owned,
        potential_total_profit |-> profit * reading.quantity_owned,
        rank |-> 0,
        recommendation |-> generate_recommendation(profit, reading.quantity_owned)]

\* the TradeOpportunity rank_opportunities builds for one reading
opportunity_of(reading) ==
    LET profit == Val(reading.friend_price) - reading.local_price
    IN [product_name |-> reading.product_name,
        region |-> reading.region,
        local_price |-> reading.local_price,
        friend_price |-> Val(reading.friend_price),
        absolute_profit |-> profit,
        profit_per_unit |-> profit,
        quantity_owned |-> reading.quantity_owned,
        potential_total_profit |->
            IF reading.quantity_owned > 0 THEN profit * reading.quantity_owned
            ELSE profit,
        rank |-> 0,
        recommendation |-> generate_recommendation(profit, reading.quantity_owned)]

\* the loop of rank_opportunities: the readings with both prices, in order
RECURSIVE collect_opportunities(_)
collect_opportunities(rs) ==
    IF rs = << >> THEN << >>
    ELSE IF ~Truthy(Head(rs).friend_price) \/ Head(rs).local_price = 0
    THEN collect_opportunities(Tail(rs))
    ELSE <<opportunity_of(Head(rs))>> \o collect_opportunities(Tail(rs))

\* a descending sort that puts x ahead of the elements whose key equals its own
insert_sorted_unstable(sorted, x) ==
    LET ahead == {i \in 1..Len(sorted) : sorted[i].absolute_profit > x.absolute_profit}
        k == IF ahead = {} THEN 0 ELSE CHOOSE i \in ahead : \A j \in ahead : j <= i
    IN SubSeq(sorted, 1, k) \o <<x>> \o SubSeq(sorted, k + 1, Len(sorted))

\* list.sort(key=absolute_profit, reverse=True), a stable sort: x goes behind
\* the elements of the sorted list whose key is at least its own
insert_sorted(sorted, x) ==
    LET ahead == {i \in 1..Len(sorted) : sorted[i].absolute_profit >= x.absolute_profit}
        k == IF ahead = {} THEN 0 ELSE CHOOSE i \in ahead : \A j \in ahead : j <= i
    IN SubSeq(sorted, 1, k) \o <<x>> \o SubSeq(sorted, k + 1, Len(sorted))

RECURSIVE sort_by_profit(_)
sort_by_profit(opps) ==
    IF opps = << >> THEN << >>
    ELSE insert_sorted(sort_by_profit(SubSeq(opps, 1, Len(opps) - 1)), opps[Len(opps)])

\* for i, opp in enumerate(opportunities): opp.rank = i + 1
assign_ranks(opps) == [i \in 1..Len(opps) |-> [opps[i] EXCEPT !.rank = i]]

\* PriceAnalyzer.rank_opportunities
rank_opportunities(rs) == assign_ranks(sort_by_profit(collect_opportunities(rs)))

\* sum(q) and max(q) of a list of integers
RECURSIVE SumSeq(_)
SumSeq(q) == IF q = << >> THEN 0 ELSE Head(q) + SumSeq(Tail(q))
MaxSeq(q) == CHOOSE m \in {q[i] : i \in 1..Len(q)} : \A i \in 1..Len(q) : q[i] <= m

\* [r.local_price for r in readings if r.local_price]
RECURSIVE local_prices_of(_)
local_prices_of(rs) ==
    IF rs = << >> THEN << >>
    ELSE IF Head(rs).local_price = 0 THEN local_prices_of(Tail(rs))
    ELSE <<Head(rs).local_price>> \o local_prices_of(Tail(rs))

\* older * 0.9 is a product of binary floating-point numbers.  With older
\* and recent the means of three prices of sums o and r, these are the pairs
\* <<o, r>>, o up to 3000, where r = 0.9 * o exactly and the product rounds
\* to a number above recent
NineTenthsRoundsUp ==
    { <<50, 45>>, <<100, 90>>, <<200, 180>>, <<400, 360>>, <<770, 693>>,
      <<800, 720>>, <<830, 747>>, <<1540, 1386>>, <<1570, 1413>>, <<1600, 1440>>,
      <<1630, 1467>>, <<1660, 1494>>, <<1690, 1521>> }

\* recent > older * 1.1 and recent < older * 0.9 on the means of three prices
\* of sums r and o (the first is exact for o up to 3000)
exceeds_by_tenth(r, o) == 10 * r > 11 * o
below_by_tenth(r, o) == 10 * r < 9 * o \/ <<o, r>> \in NineTenthsRoundsUp

\* PriceAnalyzer.analyze_price_history: None, or <<PricePattern>> of which
\* the trend is kept
analyze_price_history(rs) ==
    LET local_prices == local_prices_of(rs)
        n == Len(local_prices)
        recent == SumSeq(SubSeq(local_prices, n - 2, n))
        older == SumSeq(SubSeq(local_prices, 1, 3))
    IN IF rs = << >> THEN None
       ELSE IF local_prices = << >> THEN None
       ELSE IF n >= 3
       THEN (IF exceeds_by_tenth(recent, older) THEN Some([trend |-> "rising"])
             ELSE IF below_by_tenth(recent, older) THEN Some([trend |-> "falling"])
             ELSE Some([trend |-> "stable"]))
       ELSE Some([trend |-> "insufficient_data"])

\* the historical_diffs of should_hold_or_sell
RECURSIVE historical_diffs_of(_)
historical_diffs_of(history) ==
    IF history = << >> THEN << >>
    ELSE IF Truthy(Head(history).friend_price) /\ Head(history).local_price # 0
    THEN <<Val(Head(history).friend_price) - Head(history).local_price>>
            \o historical_diffs_of(Tail(history))
    ELSE historical_diffs_of(Tail(history))

\* PriceAnalyzer.should_hold_or_sell: the decision and the confidence of the
\* dict it returns.  avg_diff = total / n; the comparisons with max_diff *
\* 0.9, avg_diff * 2 and avg_diff * 0.5 are exact on integers of this size.
\* The confidence is "none" when the dict has no such key.  The current
\* reading's local_price is an Optional: friend_price - None raises
\* TypeError, which no handler catches.
should_hold_or_sell(current_reading, history) ==
    LET current_profit == Val(current_reading.friend_price) - Val(current_reading.local_price)
        historical_diffs == historical_diffs_of(history)
        n == Len(historical_diffs)
        total == SumSeq(historical_diffs)
        max_diff == MaxSeq(historical_diffs)
    IN IF history = << >> \/ ~Truthy(current_reading.friend_price)
       THEN [decision |-> "unknown", confidence |-> "none"]
       ELSE IF current_reading.local_price = None
       THEN [decision |-> "raise TypeError", confidence |-> "none"]
       ELSE IF historical_diffs = << >>
       THEN [decision |-> "unknown", confidence |-> "none"]
       ELSE IF 10 * current_profit >= 9 * max_diff
       THEN [decision |-> "sell", confidence |-> "high"]
       ELSE IF current_profit * n > 2 * total
       THEN [decision |-> "sell", confidence |-> "medium"]
       ELSE IF 2 * current_profit * n < total
       THEN [decision |-> "hold", confidence |-> "medium"]
       ELSE [decision |-> "neutral", confidence |-> "low"]

----------------------------------------------------------------------------
(* The state machine *)

NoStatus == [kind \in StatusKinds |-> 0]

\* the record the worker's methods work on
St == [current_product |-> current_product, last_prices |-> last_prices,
       capture_count_value |-> capture_count_value, status_log |-> status_log,
       products |-> products, readings |-> readings, sessions |-> sessions,
       raised |-> FALSE]

\* the variables after a method returned st
Becomes(st) ==
    /\ current_product' = st.current_product
    /\ last_prices' = st.last_prices
    /\ capture_count_value' = st.capture_count_value
    /\ status_log' = st.status_log
    /\ products' = st.products
    /\ readings' = st.readings
    /\ sessions' = st.sessions

\* CaptureWorker.__init__
FreshWorker ==
    /\ running = FALSE
    /\ session_id = 0
    /\ screen_capture = "none"
    /\ current_product = None
    /\ last_prices = << >>
    /\ capture_count_value = 0
    /\ status_log = NoStatus
    /\ errors = 0
    /\ hist = << >>
    /\ resolution = << >>

\* QThread.wait(3000) of CaptureWorker.stop, in seconds
WaitLimit == 3

\* the longest a tick (screenshot, four OCR regions, debug images) takes, in
\* seconds
MaxTick == 4

\* a CaptureWorker thread start_capture has not created; one it created has pc
\* "started" (QThread.start called, run not entered), "init", "test" (the
\* while test), "tick", "cleanup" (the finally of run) or "finished";
\* stop_requested, exit (why the loop or run was left), ended_notices (the
\* "Capture session ended" emissions) and tick_after_stop record what the
\* thread did
NoThread ==
    [pc |-> "none", running |-> FALSE, session_id |-> 0, screen_capture |-> "none",
     busy |-> 0, stop_requested |-> FALSE, exit |-> "none", ended_notices |-> 0,
     tick_after_stop |-> FALSE]

\* MainWindow.__init__: no worker, Start enabled, Stop disabled
UiIdle ==
    [capture_worker |-> 0, start_enabled |-> TRUE, stop_enabled |-> FALSE,
     waiting |-> 0, waited |-> 0, pending_errors |-> 0]

InitBase ==
    /\ ui = UiIdle
    /\ th = [w \in 1..MaxRuns |-> NoThread]
    /\ now = 0
    /\ runs = 0
    /\ orm_raises \in BOOLEAN
    /\ pc = "none"
    /\ FreshWorker
    /\ products = << >>
    /\ readings = << >>
    /\ sessions = << >>
    /\ rank_out = << >>
    /\ last_call = "none"
    /\ fn_out = << >>

Init == InitBase /\ rank_in = << >> /\ fn_in = << >>

\* MainWindow.start_capture: a new CaptureWorker, once the previous run ended
StartCapture ==
    /\ pc \in {"none", "done"}
    /\ runs < MaxRuns
    /\ runs' = runs + 1
    /\ pc' = "new"
    /\ running' = FALSE
    /\ session_id' = 0
    /\ screen_capture' = "none"
    /\ current_product' = None
    /\ last_prices' = << >>
    /\ capture_count_value' = 0
    /\ status_log' = NoStatus
    /\ errors' = 0
    /\ hist' = << >>
    /\ resolution' = << >>
    /\ UNCHANGED <<thVars, fnVars, now, orm_raises, dbVars, callVars>>

\* the test of run with both axes required to differ
resolution_mismatch_both_axes(width, height) ==
    /\ 10 * Abs(width - target_w) > target_w
    /\ 10 * Abs(height - target_h) > target_h

\* width_tolerance > 0.1 or height_tolerance > 0.1
resolution_mismatch(width, height) ==
    \/ 10 * Abs(width - target_w) > target_w
    \/ 10 * Abs(height - target_h) > target_h

\* CaptureWorker.run up to the resolution test: the ScreenCapture constructor
\* may raise (ctor_raises), res is what get_screen_resolution returns
RunStart ==
    /\ pc = "new"
    /\ \E ctor_raises \in BOOLEAN, res \in Resolutions :
       \E st0 \in {Emit(St, "initializing")} :
         IF ctor_raises
         THEN /\ \E st1 \in {cleanup(st0, 0, TRUE)} : Becomes(st1)
              /\ errors' = errors + 1
              /\ screen_capture' = "none"
              /\ resolution' = << >>
              /\ pc' = "done"
         ELSE /\ Becomes(st0)
              /\ errors' = errors
              /\ screen_capture' = "open"
              /\ resolution' = res
              /\ pc' = "checking"
    /\ running' = TRUE
    /\ session_id' = 0
    /\ UNCHANGED <<thVars, fnVars, now, runs, orm_raises, hist, callVars>>

\* CaptureWorker.run from the resolution test to the loop
RunCheck ==
    /\ pc = "checking"
    /\ IF resolution_mismatch(resolution[1], resolution[2])
       THEN /\ \E st1 \in {cleanup(St, 0, TRUE)} : Becomes(st1)
            /\ errors' = errors + 1
            /\ screen_capture' = "closed"
            /\ session_id' = 0
            /\ resolution' = resolution
            /\ pc' = "done"
       ELSE \E started \in {start_session(DB)} :
            /\ Becomes(Emit([St EXCEPT !.sessions = started.db.sessions], "ready"))
            /\ errors' = errors
            /\ screen_capture' = "open"
            /\ session_id' = started.id
            /\ resolution' = << >>
            /\ pc' = "loop"
    /\ UNCHANGED <<thVars, fnVars, now, runs, orm_raises, running, hist, callVars>>

\* the last two ticks
Remember(h, e) ==
    IF Len(h) < 2 THEN Append(h, e) ELSE Append(Tail(h), e)

\* one iteration of the loop of CaptureWorker.run: capture_full_screen raises
\* (f = 0) or returns the frame Frames[f]; an exception that reaches run is
\* reported and ends the loop through _cleanup
Tick ==
    /\ pc = "loop"
    /\ running
    /\ Len(readings) < MaxRows
    /\ \E f \in 0..Len(Frames) :
       \E product_data \in {IF f = 0 THEN None ELSE DetectedProduct[f]},
          friend_data \in {IF f = 0 THEN None ELSE DetectedFriend[f]} :
       \E st1 \in {IF f = 0 THEN [St EXCEPT !.raised = TRUE]
                   ELSE process_frame(St, product_data, friend_data,
                                      session_id, now, orm_raises)} :
         /\ hist' = Remember(hist, [t |-> now, f |-> f,
                                    odd |-> hist = << >> \/ ~hist[Len(hist)].odd])
         /\ IF st1.raised
            THEN /\ \E st2 \in {cleanup(st1, session_id, running)} : Becomes(st2)
                 /\ errors' = errors + 1
                 /\ screen_capture' = "closed"
                 /\ pc' = "done"
            ELSE /\ Becomes(st1)
                 /\ UNCHANGED <<errors, screen_capture, pc>>
    /\ UNCHANGED <<thVars, fnVars, now, runs, orm_raises, running, session_id, resolution,
                   callVars>>

\* CaptureWorker.stop, called by MainWindow.stop_capture
Stop ==
    /\ pc = "loop"
    /\ running
    /\ running' = FALSE
    /\ UNCHANGED <<thVars, fnVars, now, runs, orm_raises, pc, session_id, screen_capture,
                   current_product, last_prices, capture_count_value, status_log,
                   errors, hist, resolution, dbVars, callVars>>

\* the loop of CaptureWorker.run finds self.running false
LoopExit ==
    /\ pc = "loop"
    /\ ~running
    /\ \E st1 \in {cleanup(St, session_id, running)} : Becomes(st1)
    /\ screen_capture' = "closed"
    /\ pc' = "done"
    /\ UNCHANGED <<thVars, fnVars, now, runs, orm_raises, running, session_id, errors, hist,
                   resolution, callVars>>

\* time.sleep and the time the collaborators take
TimePasses ==
    /\ now < MaxTime
    /\ now' = now + 1
    /\ UNCHANGED <<thVars, fnVars, runs, orm_raises, workerVars, dbVars, callVars>>

Next == StartCapture \/ RunStart \/ RunCheck \/ Tick \/ Stop \/ LoopExit \/ TimePasses

Spec == Init /\ [][Next]_vars

----------------------------------------------------------------------------
(* The storage manager and the worker's two writers driven directly, call   *)
(* by call, as a test drives them                                          *)

\* arguments of save_price_reading
SaveArgs ==
    [product_name : {Musbeast, UnitySyrup},
     region : {Valley},
     local_price : {0, 1446},
     friend_price : {None, Some(0), Some(1000), Some(3680)},
     average_cost : {None},
     quantity_owned : {0},
     vs_local_percent : {None},
     vs_owned_percent : {None},
     session_id : {0}]

\* DatabaseManager.save_price_reading called with the arguments a
CallSave ==
    /\ last_call' = "save_price_reading"
    /\ Len(readings) < MaxRows
    /\ \E a \in SaveArgs :
       \E saved \in {save_price_reading(DB, a, now, orm_raises)} :
         /\ products' = saved.db.products
         /\ readings' = saved.db.readings
         /\ sessions' = saved.db.sessions
    /\ UNCHANGED <<thVars, fnVars, now, runs, orm_raises, workerVars, rank_in, rank_out>>

\* DatabaseManager.update_product_high_difference called
CallUpdateHigh ==
    /\ last_call' = "update_product_high_difference"
    /\ \E product_id \in 1..Len(products), difference \in {-500, 3000} :
       \E db1 \in {update_product_high_difference(DB, product_id, difference)} :
         /\ products' = db1.products
         /\ UNCHANGED <<readings, sessions>>
    /\ UNCHANGED <<thVars, fnVars, now, runs, orm_raises, workerVars, rank_in, rank_out>>

\* ProductData of a main screen
AProduct(name, local_price) ==
    [name |-> name, region |-> determine_region(name), local_price |-> local_price,
     friend_price |-> None, average_cost |-> None, quantity_owned |-> 0,
     vs_local_percent |-> None, vs_owned_percent |-> None, reading_id |-> None]

\* CaptureWorker._capture_product called on a ProductData
CallCaptureProduct ==
    /\ last_call' = "capture_product"
    /\ Len(readings) < MaxRows
    /\ \E name \in {Musbeast, UnitySyrup}, local_price \in {1446} :
       \E st1 \in {capture_product(St, AProduct(name, local_price), 0, now, orm_raises)} :
         Becomes(st1)
    /\ UNCHANGED <<thVars, fnVars, now, runs, orm_raises, pc, running, session_id, screen_capture,
                   errors, hist, resolution, rank_in, rank_out>>

\* CaptureWorker._update_with_friend_price called on a friend_data
CallUpdateWithFriendPrice ==
    /\ last_call' = "update_with_friend_price"
    /\ \E friend_price \in {3680} :
       \E st1 \in {update_with_friend_price(
                      St, [friend_price |-> friend_price, vs_local |-> NoneV,
                           vs_owned |-> NoneV])} :
         Becomes(st1)
    /\ UNCHANGED <<thVars, fnVars, now, runs, orm_raises, pc, running, session_id, screen_capture,
                   errors, hist, resolution, rank_in, rank_out>>

NextUnit ==
    \/ CallSave
    \/ CallUpdateHigh
    \/ CallCaptureProduct
    \/ CallUpdateWithFriendPrice

SpecUnit == Init /\ [][NextUnit]_vars

----------------------------------------------------------------------------
(* rank_opportunities applied to a list of readings *)

RankReadings ==
    [product_name : {"A", "B"},
     region : {Valley},
     local_price : {0, 1000},
     friend_price : {None, Some(2000), Some(5000)},
     quantity_owned : {0, 2}]

RECURSIVE SeqsUpTo(_, _)
SeqsUpTo(S, n) ==
    IF n = 0 THEN {<< >>}
    ELSE LET shorter == SeqsUpTo(S, n - 1)
         IN shorter \cup {Append(q, x) : q \in {r \in shorter : Len(r) = n - 1}, x \in S}

InitRank == InitBase /\ rank_in \in SeqsUpTo(RankReadings, MaxRank) /\ fn_in = << >>

\* the call; rank_out is << >> before it and <<result>> after it
CallRank ==
    /\ rank_out = << >>
    /\ rank_out' = <<rank_opportunities(rank_in)>>
    /\ UNCHANGED <<thVars, fnVars, now, runs, orm_raises, workerVars, dbVars, rank_in, last_call>>

SpecRank == InitRank /\ [][CallRank]_vars

----------------------------------------------------------------------------
(* The methods of the normalizer, of the analyzer and of the worker's frame  *)
(* processing applied to arguments: fn_in holds the method and its          *)
(* arguments, the call puts the result in fn_out                            *)

\* the longest text, and the longest histories, the calls are given
MaxGap == 3
MaxSaves == 3
MaxText == 3
MaxHold == 2
MaxTrend == 6

RecommendationArgs ==
    [fn : {"generate_recommendation"},
     profit : {-1, 0, 1, 500, 501, 1000, 1001, 2000, 2001, 2500},
     quantity_owned : {0, 1, 3}]

HoldReadings == [local_price : {0, 1000}, friend_price : {None, Some(200), Some(3000)}]
HoldArgs ==
    [fn : {"should_hold_or_sell"},
     current_reading : [local_price : {None, Some(0), Some(1000)},
                        friend_price : {None, Some(0), Some(1200), Some(2000),
                                        Some(2500), Some(2800)}],
     history : SeqsUpTo(HoldReadings, MaxHold)]

TrendArgs ==
    [fn : {"analyze_price_history"},
     readings : SeqsUpTo([local_price : {0, 100, 110, 150}], MaxTrend)]

PriceChars == {"1", "0", "9", ",", " ", "H"}
PriceExample1 == <<"1", ",", "2", "3", "4", " ", "H", "Z">>
PriceExample2 == <<"P", "r", "i", "c", "e", ":", " ", "9", ",", "9", "9", "9">>
PriceArgs ==
    [fn : {"extract_price"},
     text : {NoneV} \cup {IntV(n) : n \in {0, 7, 1446}}
               \cup {StrV(t) : t \in SeqsUpTo(PriceChars, MaxText)}
               \cup {StrV(PriceExample1), StrV(PriceExample2)}]

MysteryItem == <<"M", "y", "s", "t", "e", "r", "y", " ", "I", "t", "e", "m">>
Numeric1446 == <<"1", "4", "4", "6">>
NameTexts ==
    {KNOWN_PRODUCTS[i] : i \in 1..Len(KNOWN_PRODUCTS)}
        \cup {Lower(Musbeast), MysteryItem, << >>, <<"a", "b">>,
              Numeric1446, <<" ">> \o Numeric1446 \o <<" ">>, <<"1", "2">>,
              <<"1", "2", "3", "4", "5">>}
NameArgs == [fn : {"extract_product_name"}, text : NameTexts]

\* the dict extract_prices returns for a name, a local price and a friend price
OcrOf(name, local, friend) ==
    ("product_name" :> StrV(name)) @@ ("local_price" :> local)
        @@ ("friend_price" :> friend)
OcrArgs ==
    [fn : {"process_ocr_results"},
     ocr_results : {OcrOf(name, local, friend) :
                      name \in {Musbeast, MysteryItem, << >>, Numeric1446},
                      local \in {NoneV, IntV(5), IntV(1446), IntV(9999)},
                      friend \in {NoneV, IntV(5), IntV(3680), IntV(9500)}}]

\* screens _process_frame is given
Screens ==
    { FriendScreen(<<"5", "0">>), FriendScreen(<<"1", "0", "0">>),
      FriendScreen(<<"3", "6", "8", "0">>), FriendScreen(<<"1", "0", "0", "0", "0">>),
      FriendScreen(<<"1", "2", "0", "0", "0">>),
      MainScreen(UnitySyrup, <<"9", "0", "0">>, << >>, << >>),
      MainScreen(MysteryItem, << >>, << >>, << >>),
      [h |-> target_h, w |-> target_w, text |-> NoText] }
FrameArgs == [fn : {"process_frame"}, screen : Screens, pending : BOOLEAN]

\* the worker with nothing captured, and the worker after _capture_product
\* captured Musbeast at 1446 at time 0
StIdle ==
    [current_product |-> None, last_prices |-> << >>, capture_count_value |-> 0,
     status_log |-> NoStatus, products |-> << >>, readings |-> << >>,
     sessions |-> << >>, raised |-> FALSE]
StPending == capture_product(StIdle, AProduct(Musbeast, 1446), 0, 0, FALSE)

\* regions extract_prices is asked for on a 2560x1440 screenshot: the
\* calibrated one, one past the right edge, one past the bottom edge, and two
\* with a negative origin (columns -10..90, an empty slice; columns
\* -100..-50, the slice 2460..2510)
RoiChoices(key) ==
    { DEFAULT_ROIS[key],
      [x |-> 2500, y |-> 480, w |-> 100, h |-> 46],
      [x |-> 963, y |-> 1400, w |-> 100, h |-> 100],
      [x |-> -10, y |-> 480, w |-> 100, h |-> 46],
      [x |-> -100, y |-> 480, w |-> 50, h |-> 46] }
RoiKeys == {"product_name", "local_price"}
PricesScreen == MainScreen(Musbeast, <<"1", "4", "4", "6">>, << >>, << >>)
PricesArgs ==
    [fn : {"extract_prices"},
     screen : {PricesScreen,
               [h |-> target_h, w |-> target_w, text |-> PricesScreen.text,
                elsewhere |-> <<"7", "7">>]},
     rois : {r \in [RoiKeys -> UNION {RoiChoices(key) : key \in RoiKeys}] :
                \A key \in RoiKeys : r[key] \in RoiChoices(key)}]

\* candidates of _should_capture and the seconds since the capture
GateArgs ==
    [fn : {"should_capture"}, name : {Musbeast, UnitySyrup},
     local_price : {1446, 1480, 1500}, t : 0..MaxGap]

\* the worker when run enters its loop: session 1 started, nothing captured
StReady ==
    Emit(Emit([StIdle EXCEPT !.sessions =
                  start_session([products |-> << >>, readings |-> << >>,
                                 sessions |-> << >>]).db.sessions],
              "initializing"), "ready")
IterationArgs ==
    [fn : {"loop_iteration"}, name : {Musbeast, UnitySyrup}, local_price : {0, 1446},
     storage_fails : BOOLEAN, product_exists : BOOLEAN]

\* the keyword arguments of a save_price_reading call for a name and a region
SaveCall(name, region) ==
    [product_name |-> name, region |-> region, local_price |-> 1446,
     friend_price |-> Some(3680), average_cost |-> None, quantity_owned |-> 0,
     vs_local_percent |-> None, vs_owned_percent |-> None, session_id |-> 0]
SaveSequenceArgs ==
    [fn : {"save_sequence"},
     calls : SeqsUpTo({SaveCall(name, region) :
                          name \in {Musbeast, UnitySyrup, MysteryItem},
                          region \in {Wuling, Valley}}, MaxSaves)]

InitFn ==
    /\ InitBase
    /\ rank_in = << >>
    /\ fn_in \in RecommendationArgs \cup HoldArgs \cup TrendArgs \cup PriceArgs
                    \cup NameArgs \cup OcrArgs \cup FrameArgs \cup PricesArgs
                    \cup GateArgs \cup IterationArgs \cup SaveSequenceArgs

\* the call of the method fn returned result
Returns(fn, result) ==
    /\ fn_out = << >>
    /\ fn_in.fn = fn
    /\ fn_out' = <<result>>
    /\ UNCHANGED <<thVars, fn_in, now, runs, orm_raises, workerVars, dbVars, callVars>>

CallGenerateRecommendation ==
    /\ fn_in.fn = "generate_recommendation"
    /\ \E r \in {generate_recommendation(fn_in.profit, fn_in.quantity_owned)} :
         Returns("generate_recommendation", r)

CallShouldHoldOrSell ==
    /\ fn_in.fn = "should_hold_or_sell"
    /\ \E r \in {should_hold_or_sell(fn_in.current_reading, fn_in.history)} :
         Returns("should_hold_or_sell", r)

CallAnalyzePriceHistory ==
    /\ fn_in.fn = "analyze_price_history"
    /\ \E r \in {analyze_price_history(fn_in.readings)} :
         Returns("analyze_price_history", r)

CallExtractPrice ==
    /\ fn_in.fn = "extract_price"
    /\ \E r \in {extract_price(fn_in.text)} : Returns("extract_price", r)

CallExtractProductName ==
    /\ fn_in.fn = "extract_product_name"
    /\ \E r \in {extract_product_name(fn_in.text)} : Returns("extract_product_name", r)

\* process_ocr_results, and is_valid_reading on the ProductData it returns
CallProcessOcrResults ==
    /\ fn_in.fn = "process_ocr_results"
    /\ \E product_data \in {process_ocr_results(fn_in.ocr_results)} :
       \E valid \in {product_data # None /\ is_valid_reading(Val(product_data))} :
         Returns("process_ocr_results", [product_data |-> product_data, valid |-> valid])

\* _process_frame on a screenshot, one second after the capture when a
\* product is pending
CallProcessFrame ==
    /\ fn_in.fn = "process_frame"
    /\ \E product_data \in {detect_product_screen(fn_in.screen)},
          friend_data \in {detect_friend_screen(fn_in.screen)},
          st0 \in {IF fn_in.pending THEN StPending ELSE StIdle} :
       \E st1 \in {process_frame(st0, product_data, friend_data, 0, 1, FALSE)} :
         Returns("process_frame",
                 [product_data |-> product_data, friend_data |-> friend_data,
                  before |-> st0, after |-> st1])

CallExtractPrices ==
    /\ fn_in.fn = "extract_prices"
    /\ \E r \in {extract_prices(fn_in.screen, fn_in.rois)} : Returns("extract_prices", r)

\* the test and the capture of _process_frame on a detected product, t
\* seconds after Musbeast was captured at 1446
CallShouldCapture ==
    /\ fn_in.fn = "should_capture"
    /\ \E product_data \in {AProduct(fn_in.name, fn_in.local_price)} :
       \E passes \in {should_capture(StPending, product_key_of(product_data),
                                     product_data, fn_in.t)},
          st1 \in {process_frame(StPending, Some(product_data), None, 0, fn_in.t, FALSE)} :
         Returns("should_capture", [passes |-> passes, before |-> StPending, after |-> st1])

\* an iteration of the loop on a detected product, the storage failing or
\* not, the product being already in the table (from an earlier session) or
\* not
CallLoopIteration ==
    /\ fn_in.fn = "loop_iteration"
    /\ \E product_data \in {AProduct(fn_in.name, fn_in.local_price)} :
       \E st0 \in {IF fn_in.product_exists
                   THEN [StReady EXCEPT !.products =
                            <<[name |-> product_data.name, region |-> product_data.region,
                               highest_difference_ever |-> 0]>>]
                   ELSE StReady} :
       \E r \in {loop_iteration(st0, Some(product_data), None, 1, 0,
                                fn_in.storage_fails, TRUE)} :
         Returns("loop_iteration", [before |-> st0, after |-> r.st,
                                    errors |-> r.errors, continues |-> r.continues])

\* save_price_reading called once for each element of calls, on an empty
\* database: the database before the first call and after each call
RECURSIVE save_trace(_, _, _)
save_trace(db, calls, detached_raises) ==
    IF calls = << >> THEN <<db>>
    ELSE <<db>> \o save_trace(save_price_reading(db, calls[1], 0, detached_raises).db,
                              Tail(calls), detached_raises)

CallSaveSequence ==
    /\ fn_in.fn = "save_sequence"
    /\ \E trace \in {save_trace([products |-> << >>, readings |-> << >>,
                                 sessions |-> << >>], fn_in.calls, orm_raises)} :
         Returns("save_sequence", trace)

NextFn ==
    \/ CallGenerateRecommendation
    \/ CallShouldHoldOrSell
    \/ CallAnalyzePriceHistory
    \/ CallExtractPrice
    \/ CallExtractProductName
    \/ CallProcessOcrResults
    \/ CallProcessFrame
    \/ CallExtractPrices
    \/ CallShouldCapture
    \/ CallLoopIteration
    \/ CallSaveSequence

SpecFn == InitFn /\ [][NextFn]_vars

----------------------------------------------------------------------------
(* The vocabulary of the properties: what a screen shows, read off the      *)
(* screen itself, and the ticks the loop has made                           *)

\* the time a pending product is remembered for
PendingTTL == 15

\* the product name, local price and friend price a screen shows
ShownName(f) == extract_product_name(Frames[f].text["product_name"])
ShownLocal(f) == extract_number(Frames[f].text["local_price"])
ShownFriend(f) == extract_number(Frames[f].text["friend_price"])

\* the screens that are main-screen candidates: a known product's name and a
\* local price
MainFrames ==
    {f \in 1..Len(Frames) :
        /\ \E i \in 1..Len(KNOWN_PRODUCTS) : KNOWN_PRODUCTS[i] = ShownName(f)
        /\ ShownLocal(f).tag = "int"
        /\ ShownLocal(f).n > 0}

\* the screens that are friend-screen candidates
FriendFrames ==
    {f \in 1..Len(Frames) :
        /\ f \notin MainFrames
        /\ ShownFriend(f).tag = "int"
        /\ ShownFriend(f).n > 0}

LastTick == hist[Len(hist)]

\* the readings of the product called name, at the local price local, taken
\* at or after time t
ReadingsOf(name, local, t) ==
    {i \in 1..Len(readings) :
        /\ products[readings[i].product_id].name = name
        /\ readings[i].local_price = local
        /\ readings[i].timestamp >= t}

\* the loop's last two ticks processed a main screen and then a friend screen
MainThenFriend ==
    /\ Len(hist) = 2
    /\ hist[1].f \in MainFrames
    /\ hist[2].f \in FriendFrames

\* this step is a tick of the loop on one of the screens F (0: the capture
\* raised)
TickOn(F) ==
    /\ hist' # << >>
    /\ hist' # hist
    /\ hist'[Len(hist')].f \in F

\* the status messages that tell the user a pending product timed out
TimedOutNotices ==
    IF "timed_out" \in DOMAIN status_log THEN status_log["timed_out"] ELSE 0

----------------------------------------------------------------------------
(* The properties *)

\* C1: when the loop has processed a main-screen candidate and, as the next
\* candidate and less than 15 time units later, a friend-screen candidate,
\* exactly one reading exists for the pair, with the main screen's local
\* price and the friend screen's friend price.
C1_Stitched ==
    (MainThenFriend /\ hist[2].t - hist[1].t < PendingTTL) =>
        \E i \in 1..Len(readings) :
            /\ ReadingsOf(ShownName(hist[1].f), ShownLocal(hist[1].f).n, hist[1].t) = {i}
            /\ readings[i].friend_price = Some(ShownFriend(hist[2].f).n)

\* C2: when a friend-screen candidate is processed 15 or more time units
\* after the last main-screen candidate, no reading receives its friend
\* price, the pending product is cleared, and a timed-out notice has been
\* emitted.
C2_TimedOut ==
    (MainThenFriend /\ hist[2].t - hist[1].t >= PendingTTL) =>
        /\ \A i \in 1..Len(readings) :
              readings[i].friend_price # Some(ShownFriend(hist[2].f).n)
        /\ current_product = None
        /\ TimedOutNotices > 0

\* C3: when two candidates with the same (product name, local price) have
\* been processed less than 2 time units apart, exactly one reading of that
\* key was persisted in the window, whatever their other fields.
C3_OneReadingPerKey ==
    ( /\ Len(hist) = 2
      /\ hist[1].f \in MainFrames
      /\ hist[2].f \in MainFrames
      /\ ShownName(hist[1].f) = ShownName(hist[2].f)
      /\ ShownLocal(hist[1].f) = ShownLocal(hist[2].f)
      /\ hist[2].t - hist[1].t < recapture_seconds ) =>
        Cardinality(ReadingsOf(ShownName(hist[2].f), ShownLocal(hist[2].f).n,
                               hist[2].t - recapture_seconds + 1)) = 1

\* C4: after every main-screen candidate the loop processes, the pending
\* product is that candidate's product (so that a friend price attaches to
\* the product of the most recent main screen).
C4_LastMainScreenPending ==
    (hist # << >> /\ LastTick.f \in MainFrames) =>
        /\ current_product # None
        /\ Val(current_product).name = ShownName(LastTick.f)
        /\ Val(current_product).local_price = ShownLocal(LastTick.f).n

\* C5: a tick that processes a friend-screen candidate while no product is
\* pending creates no reading, modifies no reading, creates no product and
\* leaves no product pending.
C5_FriendDroppedWhenIdle ==
    [][ (TickOn(FriendFrames) /\ current_product = None) =>
            /\ readings' = readings
            /\ products' = products
            /\ current_product' = None ]_vars

\* a friend screen was processed with no product pending, and was dropped
C5_Witness ==
    /\ pc = "loop"
    /\ hist # << >>
    /\ LastTick.f \in FriendFrames
    /\ current_product = None
    /\ readings = << >>

\* C6: after _update_with_friend_price has handled a friend-screen candidate,
\* no product is pending (so that a second friend screen finds nothing to
\* attach to).
C6_IdleAfterFriend ==
    last_call = "update_with_friend_price" => current_product = None

\* C7: a tick whose processing raised (here: the frame capture) is confined
\* to that tick: the loop is still running afterwards, and the pending
\* product and the dedup table are unchanged.
C7_TickFailureConfined ==
    [][ TickOn({0}) =>
            /\ pc' = "loop"
            /\ current_product' = current_product
            /\ last_prices' = last_prices ]_vars

\* C8: every persisted reading with a local price and a friend price (a
\* price of 0 is the code's absent price) has absolute_difference =
\* friend_price - local_price.
C8_DifferenceIsFriendMinusLocal ==
    \A i \in 1..Len(readings) :
        (Truthy(readings[i].friend_price) /\ readings[i].local_price # 0) =>
            readings[i].absolute_difference =
                Some(Val(readings[i].friend_price) - readings[i].local_price)

\* the reading of the example is persisted: local 1446, friend 3680, 2234
C8_Witness ==
    \E i \in 1..Len(readings) :
        /\ readings[i].local_price = 1446
        /\ readings[i].friend_price = Some(3680)
        /\ readings[i].absolute_difference = Some(2234)

C9_HighestDominates ==
    \A i \in 1..Len(readings) :
        readings[i].absolute_difference # None =>
            products[readings[i].product_id].highest_difference_ever
                >= Val(readings[i].absolute_difference)

C9_HighestNeverDecreases ==
    \A p \in 1..Len(products) :
        /\ p <= Len(products')
        /\ products'[p].highest_difference_ever >= products[p].highest_difference_ever

\* C9: in every reachable state each product's highest_difference_ever is at
\* least the absolute_difference of every reading of that product, and no
\* step decreases it.
C9_HighestDifferenceEver ==
    /\ []C9_HighestDominates
    /\ [][C9_HighestNeverDecreases]_vars

\* a product whose high was raised by a reading, with a second, smaller
\* difference persisted after it
C9_Witness ==
    \E i, j \in 1..Len(readings) :
        /\ i < j
        /\ readings[i].product_id = readings[j].product_id
        /\ readings[i].absolute_difference = Some(2234)
        /\ readings[j].absolute_difference = Some(-446)
        /\ products[readings[i].product_id].highest_difference_ever >= 2234

\* the readings rank_opportunities keeps, in input order
Eligible(r) == Truthy(r.friend_price) /\ r.local_price # 0
\* what identifies an opportunity or a reading
Ident(x) == <<x.product_name, x.local_price, x.quantity_owned>>
IdentsOf(q) == [i \in 1..Len(q) |-> Ident(q[i])]

\* C10: the result of rank_opportunities is in non-increasing order of
\* absolute_profit, opportunities of equal absolute_profit are in their input
\* order, and the i-th element has rank i (ranks 1..N).
C10_StableDescendingRanks ==
    rank_out # << >> =>
        LET out == rank_out[1]
            kept == SelectSeq(rank_in, Eligible)
        IN /\ Len(out) = Len(kept)
           /\ \A i \in 1..Len(out) : out[i].rank = i
           /\ \A i \in 1..(Len(out) - 1) :
                 out[i].absolute_profit >= out[i + 1].absolute_profit
           /\ \A p \in {out[i].absolute_profit : i \in 1..Len(out)} :
                 LET OutHas(o) == o.absolute_profit = p
                     InHas(r) == Val(r.friend_price) - r.local_price = p
                 IN IdentsOf(SelectSeq(out, OutHas)) = IdentsOf(SelectSeq(kept, InHas))

\* three opportunities ranked, the best one last in the input and the two
\* others tied
C10_Witness ==
    /\ rank_out # << >>
    /\ Len(rank_out[1]) = 3
    /\ rank_in[3].friend_price = Some(5000)
    /\ rank_out[1][1].absolute_profit = 4000
    /\ rank_out[1][2].absolute_profit = 1000
    /\ rank_out[1][3].absolute_profit = 1000
    /\ rank_out[1][2].product_name = "A"
    /\ rank_out[1][3].product_name = "B"

\* what a reading and the opportunity made of it have in common
ReadingKey(r) == <<r.product_name, r.local_price, r.friend_price, r.quantity_owned>>
OpportunityKey(o) == <<o.product_name, o.local_price, Some(o.friend_price), o.quantity_owned>>

\* C11: rank_opportunities returns one opportunity for each input reading
\* that has a friend price and a local price and none for the others; each
\* has absolute_profit = friend_price - local_price and
\* potential_total_profit = absolute_profit * quantity_owned when
\* quantity_owned > 0, absolute_profit otherwise.
C11_OpportunityPerCompleteReading ==
    rank_out # << >> =>
        LET out == rank_out[1]
            keys == {ReadingKey(rank_in[j]) : j \in 1..Len(rank_in)}
                        \cup {OpportunityKey(out[i]) : i \in 1..Len(out)}
        IN /\ \A k \in keys :
                 Cardinality({i \in 1..Len(out) : OpportunityKey(out[i]) = k})
                   = Cardinality({j \in 1..Len(rank_in) :
                                     Eligible(rank_in[j]) /\ ReadingKey(rank_in[j]) = k})
           /\ \A i \in 1..Len(out) :
                 /\ out[i].absolute_profit = out[i].friend_price - out[i].local_price
                 /\ out[i].potential_total_profit =
                        IF out[i].quantity_owned > 0
                        THEN out[i].absolute_profit * out[i].quantity_owned
                        ELSE out[i].absolute_profit

\* a list with a reading without friend price, an opportunity owned twice
\* (total 8000) and one not owned (total 4000)
C11_Witness ==
    /\ rank_out # << >>
    /\ Len(rank_in) = 3
    /\ rank_in[1].friend_price = None
    /\ Len(rank_out[1]) = 2
    /\ rank_out[1][1].quantity_owned = 2
    /\ rank_out[1][1].potential_total_profit = 8000
    /\ rank_out[1][2].quantity_owned = 0
    /\ rank_out[1][2].potential_total_profit = 4000

\* the result of the direct call of the method fn, once it has returned
Returned(fn) == fn_out # << >> /\ fn_in.fn = fn

\* C12: the recommendation tier depends on the profit with strict
\* thresholds: above 2000 exceptional (sell now when owned, buy otherwise),
\* above 1000 up to 2000 good, above 500 up to 1000 moderate, above 0 up to
\* 500 low priority, 0 or less avoid; whatever the quantity owned.
C12_RecommendationTiers ==
    Returned("generate_recommendation") =>
        LET profit == fn_in.profit
            owned == fn_in.quantity_owned > 0
            r == fn_out[1]
        IN /\ profit > 2000 =>
                 r = (IF owned THEN "SELL NOW - Excellent opportunity!"
                      ELSE "BUY - Exceptional profit potential")
           /\ (1000 < profit /\ profit <= 2000) =>
                 r = (IF owned THEN "Sell - Good opportunity"
                      ELSE "Buy - Good profit potential")
           /\ (500 < profit /\ profit <= 1000) => r = "Consider - Moderate opportunity"
           /\ (0 < profit /\ profit <= 500) => r = "Low priority - Small margin"
           /\ profit <= 0 => r = "Avoid - No profit opportunity"

\* profit 2000 has been given the good tier, not the exceptional one
C12_Witness ==
    /\ Returned("generate_recommendation")
    /\ fn_in.profit = 2000
    /\ fn_in.quantity_owned = 0
    /\ fn_out[1] = "Buy - Good profit potential"

\* the (friend - local) differences of the readings of a history that have
\* both prices
DiffOf(r) == Val(r.friend_price) - r.local_price
UsableDiffs(history) ==
    LET usable == SelectSeq(history, Eligible)
    IN [i \in 1..Len(usable) |-> DiffOf(usable[i])]

\* the first matching case for a current profit, against the differences
\* diffs: avg_diff is their sum divided by their number
FirstMatchingCase(current_profit, diffs) ==
    LET n == Len(diffs)
        max_diff == CHOOSE m \in {diffs[i] : i \in 1..n} : \A i \in 1..n : diffs[i] <= m
        sum_diffs == SumSeq(diffs)
    IN IF 10 * current_profit >= 9 * max_diff
       THEN [decision |-> "sell", confidence |-> "high"]
       ELSE IF n * current_profit > 2 * sum_diffs
       THEN [decision |-> "sell", confidence |-> "medium"]
       ELSE IF 2 * n * current_profit < sum_diffs
       THEN [decision |-> "hold", confidence |-> "medium"]
       ELSE [decision |-> "neutral", confidence |-> "low"]

\* C13: should_hold_or_sell returns a decision for every current reading,
\* one without local_price or friend_price included, and never raises; the
\* decision is 'unknown' when the history has no reading with both prices;
\* otherwise, for a current reading with both prices, it is the first
\* matching of sell/high, sell/medium, hold/medium, neutral/low.
C13_HoldOrSell ==
    Returned("should_hold_or_sell") =>
        LET diffs == UsableDiffs(fn_in.history)
            current == fn_in.current_reading
            r == fn_out[1]
        IN /\ r.decision \in {"unknown", "sell", "hold", "neutral"}
           /\ diffs = << >> => r.decision = "unknown"
           /\ (diffs # << >> /\ current.local_price # None /\ Truthy(current.friend_price)) =>
                  r = FirstMatchingCase(Val(current.friend_price) - Val(current.local_price), diffs)

\* the call of C13's failing input: a current reading with a friend price and
\* no local price, against a history of one reading with both prices
C13_Raised ==
    /\ Returned("should_hold_or_sell")
    /\ fn_in.current_reading = [local_price |-> None, friend_price |-> Some(1200)]
    /\ fn_in.history = <<[local_price |-> 1000, friend_price |-> Some(3000)]>>
    /\ fn_out[1].decision = "raise TypeError"

\* the four cases as decided by a call whose current reading has both prices
C13_CasesWhenBothPrices ==
    Returned("should_hold_or_sell") =>
        LET diffs == UsableDiffs(fn_in.history)
            current == fn_in.current_reading
        IN (diffs # << >> /\ current.local_price # None /\ Truthy(current.friend_price)) =>
               fn_out[1] = FirstMatchingCase(Val(current.friend_price) - Val(current.local_price), diffs)

\* a history every reading of which has a local price
AllPriced(rs) == rs # << >> /\ \A i \in 1..Len(rs) : rs[i].local_price # 0

\* the trend of a history of local prices, in exact arithmetic: the means of
\* the last three and of the first three compare as their sums do
TrendOf(prices) ==
    LET n == Len(prices)
        last3 == SumSeq(SubSeq(prices, n - 2, n))
        first3 == SumSeq(SubSeq(prices, 1, 3))
    IN IF n < 3 THEN "insufficient_data"
       ELSE IF 10 * last3 > 11 * first3 THEN "rising"
       ELSE IF 10 * last3 < 9 * first3 THEN "falling"
       ELSE "stable"

\* C14: for a history of priced readings, the trend is 'insufficient_data'
\* below 3 readings; otherwise 'rising' when the mean local price of the last
\* 3 exceeds the mean of the first 3 by more than 10%, 'falling' when it is
\* lower by more than 10%, and 'stable' otherwise.
C14_Trend ==
    (Returned("analyze_price_history") /\ AllPriced(fn_in.readings)) =>
        /\ fn_out[1] # None
        /\ Val(fn_out[1]).trend =
               TrendOf([i \in 1..Len(fn_in.readings) |-> fn_in.readings[i].local_price])

\* the call of C14's failing input: the last three of 150, 100, 150, 110 sum
\* to 360, exactly nine tenths of the first three's 400
C14_FallingAtExactlyTenth ==
    /\ Returned("analyze_price_history")
    /\ fn_in.readings = <<[local_price |-> 150], [local_price |-> 100],
                          [local_price |-> 150], [local_price |-> 110]>>
    /\ Val(fn_out[1]).trend = "falling"

\* the scenario of C14: the history 100, 100, 100, 150, 150, 150 is rising
C14_Scenario ==
    (/\ Returned("analyze_price_history")
     /\ fn_in.readings = <<[local_price |-> 100], [local_price |-> 100],
                           [local_price |-> 100], [local_price |-> 150],
                           [local_price |-> 150], [local_price |-> 150]>>)
        => Val(fn_out[1]).trend = "rising"

RECURSIVE Pow10(_)
Pow10(k) == IF k = 0 THEN 1 ELSE 10 * Pow10(k - 1)

\* the integer formed by the digits of t in order: each digit weighs ten to
\* the number of digits to its right
RECURSIVE WeighedFrom(_, _)
WeighedFrom(t, i) ==
    IF i > Len(t) THEN 0
    ELSE IF IsDigit(t[i])
    THEN DigitVal(t[i]) * Pow10(Cardinality({j \in (i + 1)..Len(t) : IsDigit(t[j])}))
             + WeighedFrom(t, i + 1)
    ELSE WeighedFrom(t, i + 1)
DigitsInOrder(t) == WeighedFrom(t, 1)

\* C15: extract_price of a string of digits and separator or label characters
\* is the integer formed by its digits in order ("1,234 HZ" gives 1234,
\* "Price: 9,999" gives 9999); a string with no digit, the empty string
\* included, gives None; an int is returned unchanged.
C15_DigitsInOrder ==
    Returned("extract_price") =>
        /\ fn_in.text.tag = "int" => fn_out[1] = Some(fn_in.text.n)
        /\ fn_in.text.tag = "str" =>
               IF \E i \in 1..Len(fn_in.text.s) : IsDigit(fn_in.text.s[i])
               THEN fn_out[1] = Some(DigitsInOrder(fn_in.text.s))
               ELSE fn_out[1] = None
        /\ fn_in.text = StrV(PriceExample1) => fn_out[1] = Some(1234)
        /\ fn_in.text = StrV(PriceExample2) => fn_out[1] = Some(9999)

\* "1,234 HZ" was parsed: the digits on both sides of the separator count
C15_Witness ==
    /\ Returned("extract_price")
    /\ fn_in.text = StrV(PriceExample1)
    /\ fn_out[1] = Some(1234)

KnownProductSet == {KNOWN_PRODUCTS[i] : i \in 1..Len(KNOWN_PRODUCTS)}

\* C16: extract_product_name applied to the exact string of a known product
\* returns that product, never another known product and never None.
C16_ExactKnownName ==
    (Returned("extract_product_name") /\ fn_in.text \in KnownProductSet) =>
        fn_out[1] = fn_in.text

\* the last product of the dictionary was found under its own name, after
\* the fifteen patterns before it failed to match
C16_Witness ==
    /\ Returned("extract_product_name")
    /\ fn_in.text = KNOWN_PRODUCTS[Len(KNOWN_PRODUCTS)]
    /\ Len(KNOWN_PRODUCTS) = 16
    /\ fn_out[1] = ScrapToyBlocks

\* a text whose trimmed form consists only of digits
PurelyNumeric(t) ==
    Strip(t) # << >> /\ \A i \in 1..Len(Strip(t)) : IsDigit(Strip(t)[i])

\* C17: extract_product_name returns None for every raw text whose trimmed
\* form consists only of digits, and no candidate of process_ocr_results is
\* named by a numeric read of the name region.
C17_NumericNameRejected ==
    /\ (Returned("extract_product_name") /\ PurelyNumeric(fn_in.text)) =>
           fn_out[1] = << >>
    /\ (Returned("process_ocr_results")
            /\ PurelyNumeric(fn_in.ocr_results["product_name"].s)) =>
           (fn_out[1].product_data = None \/ Val(fn_out[1].product_data).name = << >>)

\* the calls of C17's failing input: the text "1446" is returned as a name,
\* and the candidate made of it carries that name
C17_NumericNameKept ==
    \/ /\ Returned("extract_product_name")
       /\ fn_in.text = Numeric1446
       /\ fn_out[1] = Numeric1446
    \/ /\ Returned("process_ocr_results")
       /\ fn_in.ocr_results = OcrOf(Numeric1446, IntV(1446), NoneV)
       /\ fn_out[1].product_data # None
       /\ Val(fn_out[1].product_data).name = Numeric1446
       /\ fn_out[1].valid

\* C18: every ProductData of process_ocr_results has local_price absent (0,
\* as the dataclass stores it) or within [10, 9500], and friend_price None or
\* within [10, 9000].
C18_PlausiblePrices ==
    (Returned("process_ocr_results") /\ fn_out[1].product_data # None) =>
        LET data == Val(fn_out[1].product_data)
        IN /\ data.local_price = 0 \/ (10 <= data.local_price /\ data.local_price <= 9500)
           /\ \/ data.friend_price = None
              \/ (10 <= Val(data.friend_price) /\ Val(data.friend_price) <= 9000)

\* the call of C18's failing input: a local price of 9999 and a friend price
\* of 5 are both kept
C18_ImplausibleKept ==
    /\ Returned("process_ocr_results")
    /\ fn_in.ocr_results = OcrOf(Musbeast, IntV(9999), IntV(5))
    /\ fn_out[1].product_data # None
    /\ Val(fn_out[1].product_data).local_price = 9999
    /\ Val(fn_out[1].product_data).friend_price = Some(5)

\* the one filter of process_ocr_results: a friend price above 9000 is
\* cleared and the other fields are kept
C18_FriendAbove9000Cleared ==
    (Returned("process_ocr_results")
        /\ fn_in.ocr_results["friend_price"] = IntV(9500)
        /\ fn_out[1].product_data # None) =>
        /\ Val(fn_out[1].product_data).friend_price = None
        /\ fn_in.ocr_results["local_price"].tag = "int" =>
               Val(fn_out[1].product_data).local_price = fn_in.ocr_results["local_price"].n

\* C19: a candidate passes for a main-screen observation, the test under
\* which _detect_product_screen returns it to be captured and persisted, only
\* if its name is a known product and its local_price is present and above 0.
C19_MainScreenOnlyKnownAndPriced ==
    (Returned("process_ocr_results") /\ fn_out[1].valid) =>
        LET data == Val(fn_out[1].product_data)
        IN data.name \in KnownProductSet /\ data.local_price > 0

\* the call of C19's failing input: the candidate read from an unknown name
\* and no local price passes is_valid_reading, with local_price 0
C19_UnknownUnpricedAccepted ==
    /\ Returned("process_ocr_results")
    /\ fn_in.ocr_results = OcrOf(MysteryItem, NoneV, NoneV)
    /\ fn_out[1].valid
    /\ Val(fn_out[1].product_data).name = MysteryItem
    /\ Val(fn_out[1].product_data).name \notin KnownProductSet
    /\ Val(fn_out[1].product_data).local_price = 0

InFriendBand(p) == 100 < p /\ p < 10000

\* C20: _process_frame treats a screenshot as a friend screen only if its
\* friend price is strictly between 100 and 10000, and no reading of a
\* pending product receives a friend price of 100 or less or of 10000 or
\* more.
C20_FriendBand ==
    Returned("process_frame") =>
        LET before == fn_out[1].before
            after == fn_out[1].after
        IN /\ fn_out[1].friend_data # None =>
                  InFriendBand(Val(fn_out[1].friend_data).friend_price)
           /\ \A i \in 1..Len(after.readings) :
                  (/\ after.readings[i].friend_price # None
                   /\ (i > Len(before.readings)
                          \/ before.readings[i].friend_price # after.readings[i].friend_price))
                      => InFriendBand(Val(after.readings[i].friend_price))

\* a friend screen showing 50 was processed while Musbeast was pending: no
\* friend observation was made of it and the pending reading kept no price
C20_Witness ==
    /\ Returned("process_frame")
    /\ fn_in.pending
    /\ fn_in.screen = FriendScreen(<<"5", "0">>)
    /\ fn_out[1].before.current_product # None
    /\ Len(fn_out[1].before.readings) = 1
    /\ fn_out[1].friend_data = None
    /\ fn_out[1].after.readings[1].friend_price = None

\* a resolution further than a tenth from the reference on either axis
OutOfTolerance(res) ==
    \/ 10 * Abs(res[1] - target_w) > target_w
    \/ 10 * Abs(res[2] - target_h) > target_h

\* C22: when the resolution read differs from the reference by more than the
\* tolerance on either axis, run emits an error and ends before any tick: no
\* capture session is started and no PriceReading is persisted.
C22_MismatchHalts ==
    [][(pc = "checking" /\ pc' # "checking" /\ OutOfTolerance(resolution)) =>
           /\ pc' = "done"
           /\ errors' = errors + 1
           /\ session_id' = 0
           /\ sessions' = sessions
           /\ readings' = readings
           /\ hist = << >> /\ hist' = << >>]_vars

\* run ended on a resolution whose height alone is out of tolerance
C22_Witness ==
    /\ pc = "done"
    /\ resolution = <<2560, 1080>>
    /\ errors = 1
    /\ session_id = 0
    /\ hist = << >>
    /\ status_log["ready"] = 0
    /\ status_log["session_ended"] = 1

\* a rectangle that lies entirely inside the frame
InsideFrame(roi, frame) ==
    /\ roi.x >= 0 /\ roi.y >= 0
    /\ roi.x + roi.w <= frame.w /\ roi.y + roi.h <= frame.h

\* C23: extract_prices returns an entry for every requested region name and
\* does not raise; a region that does not lie entirely inside the frame (past
\* the right or bottom edge, or with a negative origin) gives None under its
\* key.
C23_EveryRegionAnswered ==
    Returned("extract_prices") =>
        /\ "raise" \notin DOMAIN fn_out[1]
        /\ DOMAIN fn_out[1] = DOMAIN fn_in.rois
        /\ \A key \in DOMAIN fn_in.rois :
               ~InsideFrame(fn_in.rois[key], fn_in.screen) => fn_out[1][key] = NoneV

\* the calls of C23's failing inputs: the name region at columns -10..90
\* raises, and the name region at columns -100..-50 is answered with the text
\* found at the right edge of the screenshot
C23_NegativeOrigin ==
    /\ Returned("extract_prices")
    /\ fn_in.rois["local_price"] = DEFAULT_ROIS["local_price"]
    /\ \/ /\ fn_in.rois["product_name"].x = -10
          /\ fn_out[1] = Raised("cv2.error")
       \/ /\ fn_in.rois["product_name"].x = -100
          /\ "elsewhere" \in DOMAIN fn_in.screen
          /\ fn_out[1]["product_name"] = StrV(<<"7", "7">>)

\* the bounds check of extract_prices: with no negative origin, every key is
\* answered, a region past the right or bottom edge with None, and a region
\* inside the frame with what the OCR reads there
C23_PastEdgeIsNone ==
    (/\ Returned("extract_prices")
     /\ \A key \in DOMAIN fn_in.rois : fn_in.rois[key].x >= 0 /\ fn_in.rois[key].y >= 0) =>
        /\ DOMAIN fn_out[1] = DOMAIN fn_in.rois
        /\ \A key \in DOMAIN fn_in.rois :
               IF InsideFrame(fn_in.rois[key], fn_in.screen)
               THEN fn_out[1][key] = (IF key = "local_price" THEN IntV(1446)
                                      ELSE StrV(Musbeast))
               ELSE fn_out[1][key] = NoneV

\* the key and the time of the capture the gate remembers
GateKey == <<Musbeast, 1446>>
GateSameKey == <<fn_in.name, fn_in.local_price>> = GateKey

\* C24: the gate suppresses a candidate only while a reading of the same
\* (name, local_price) key was accepted less than 2 seconds earlier; a
\* candidate of the same key 2 seconds or more after the accepted one passes
\* and is persisted.
C24_SuppressedOnlyWithinTwo ==
    Returned("should_capture") =>
        /\ fn_out[1].passes <=> ~(GateSameKey /\ fn_in.t < 2)
        /\ fn_out[1].passes =>
               Len(fn_out[1].after.readings) = Len(fn_out[1].before.readings) + 1

\* the call of C24's failing input: the same key, 2 seconds after its capture
C24_SuppressedAfterTwo ==
    /\ Returned("should_capture")
    /\ GateSameKey
    /\ fn_in.t = 2
    /\ ~fn_out[1].passes
    /\ fn_out[1].after.readings = fn_out[1].before.readings

\* what the gate does: a key that was captured never passes again, and a key
\* that was not passes at once and is persisted
C24_SameKeyNeverAgain ==
    Returned("should_capture") =>
        /\ fn_out[1].passes <=> ~GateSameKey
        /\ fn_out[1].passes =>
               Len(fn_out[1].after.readings) = Len(fn_out[1].before.readings) + 1

\* C25: a single failure of the storage while a reading is persisted is a
\* transient of the tick: no error is shown and the loop goes on.
C25_SingleFailureTransient ==
    (Returned("loop_iteration") /\ fn_in.storage_fails) =>
        /\ fn_out[1].continues
        /\ fn_out[1].errors = 0
        /\ fn_out[1].after.sessions[1].status = "active"

\* the call of C25's failing input: the first storage failure of the session
\* is reported and ends the loop
C25_FirstFailureStops ==
    /\ Returned("loop_iteration")
    /\ fn_in.storage_fails
    /\ fn_out[1].before.capture_count_value = 0
    /\ ~fn_out[1].continues
    /\ fn_out[1].errors = 1
    /\ fn_out[1].after.sessions[1].status = "error"
    /\ fn_out[1].after.status_log["session_ended"] = 1

\* what run does with the storage: every failure ends the loop with an
\* error, and without a failure the iteration persists and goes on
C25_EveryFailureStops ==
    Returned("loop_iteration") =>
        /\ fn_out[1].continues <=> ~fn_in.storage_fails
        /\ fn_out[1].errors = (IF fn_in.storage_fails THEN 1 ELSE 0)
        /\ ~fn_in.storage_fails => Len(fn_out[1].after.readings) = 1

\* the ids of the products of db that carry a name
ProductsNamed(db, name) == {i \in 1..Len(db.products) : db.products[i].name = name}

\* C26: after any sequence of save_price_reading calls there is exactly one
\* Product for each name of a saved reading; a call creates the Product when
\* its name is new and otherwise reuses it, name and region unchanged, and no
\* Product is removed.
C26_OneProductPerName ==
    Returned("save_sequence") =>
        LET trace == fn_out[1]
            calls == fn_in.calls
        IN \A k \in 1..Len(calls) :
             LET before == trace[k]
                 after == trace[k + 1]
                 name == calls[k].product_name
             IN /\ Cardinality(ProductsNamed(after, name)) = 1
                /\ Len(after.products) =
                       Len(before.products) + (IF ProductsNamed(before, name) = {} THEN 1 ELSE 0)
                /\ \A i \in 1..Len(before.products) :
                       /\ after.products[i].name = before.products[i].name
                       /\ after.products[i].region = before.products[i].region
                /\ Len(after.readings) > Len(before.readings) =>
                       after.readings[Len(after.readings)].product_id
                           \in ProductsNamed(after, name)
                /\ \A i \in 1..Len(before.readings) :
                       after.readings[i].product_id = before.readings[i].product_id

\* three readings were saved for one name, the second under another region:
\* one Product, created by the first call, carries them all
C26_Witness ==
    /\ Returned("save_sequence")
    /\ fn_in.calls = <<SaveCall(Musbeast, Valley), SaveCall(Musbeast, Wuling),
                       SaveCall(Musbeast, Valley)>>
    /\ Len(fn_out[1][4].products) = 1
    /\ fn_out[1][4].products[1].region = Valley
    /\ Len(fn_out[1][4].readings) = 3
    /\ \A i \in 1..3 : fn_out[1][4].readings[i].product_id = 1

\* C27: _update_with_friend_price changes, of the persisted readings, only
\* friend_price, vs_local_percent, vs_owned_percent and absolute_difference
\* of the reading of the current product: that reading's product, region,
\* local_price, average_cost, quantity_owned, timestamp and session_id are
\* unchanged, every other reading is unchanged, and none is added or removed.
C27_LateUpdateFrame ==
    [][last_call' = "update_with_friend_price" =>
          /\ Len(readings') = Len(readings)
          /\ \A i \in 1..Len(readings) :
                /\ readings'[i].product_id = readings[i].product_id
                /\ readings'[i].region = readings[i].region
                /\ readings'[i].local_price = readings[i].local_price
                /\ readings'[i].average_cost = readings[i].average_cost
                /\ readings'[i].quantity_owned = readings[i].quantity_owned
                /\ readings'[i].timestamp = readings[i].timestamp
                /\ readings'[i].session_id = readings[i].session_id
                /\ (current_product = None \/ Val(current_product).reading_id # Some(i)) =>
                       readings'[i] = readings[i]]_vars

\* _update_with_friend_price ran while the current product had its reading,
\* the second of two, persisted
C27_Witness ==
    /\ last_call = "update_with_friend_price"
    /\ current_product # None
    /\ Val(current_product).reading_id = Some(2)
    /\ Len(readings) = 2
    /\ readings[2].local_price = Val(current_product).local_price

\* the readings of db persisted with session_id sid
ReadingsOfSession(db, sid) == {i \in 1..Len(db.readings) : db.readings[i].session_id = sid}

\* C28: the worker's capture counter, the session's goods_captured and the
\* number of readings persisted with the session's id are equal.
C28_CountersAgree ==
    Returned("loop_iteration") =>
        LET after == fn_out[1].after
        IN /\ after.capture_count_value = after.sessions[1].goods_captured
           /\ after.sessions[1].goods_captured = Cardinality(ReadingsOfSession(after, 1))

\* the call of C28's failing input: the reading is persisted and counted by
\* the session, and the worker's counter is not incremented
C28_CounterBehind ==
    /\ Returned("loop_iteration")
    /\ fn_in.storage_fails
    /\ fn_in.product_exists
    /\ fn_out[1].after.capture_count_value = 0
    /\ fn_out[1].after.sessions[1].goods_captured = 1
    /\ Cardinality(ReadingsOfSession(fn_out[1].after, 1)) = 1

\* the two counts of the storage agree with each other after every
\* iteration, and the worker's counter agrees with them when nothing raised
C28_StorageCountsAgree ==
    Returned("loop_iteration") =>
        LET after == fn_out[1].after
        IN /\ after.sessions[1].goods_captured = Cardinality(ReadingsOfSession(after, 1))
           /\ fn_out[1].continues =>
                  after.capture_count_value = after.sessions[1].goods_captured

----------------------------------------------------------------------------
(***************************************************************************)
(* The UI thread and the CaptureWorker threads, statement by statement.    *)
(* MainWindow.start_capture creates a thread and returns; run, _cleanup    *)
(* and stop read and write self.running without a lock; stop waits at most *)
(* WaitLimit seconds for the thread. Only a tick and a blocked wait take   *)
(* time: every other statement is done before the clock moves.             *)
(***************************************************************************)
Threads == 1..MaxRuns

\* the rest of the program's state is not touched by these steps
ThOthers == <<now, orm_raises, workerVars, products, readings, callVars, fnVars>>

\* MainWindow.start_capture: the buttons, a new CaptureWorker, QThread.start
ThStartCapture ==
    /\ ui.start_enabled
    /\ ui.waiting = 0
    /\ runs < MaxRuns
    /\ runs' = runs + 1
    /\ th' = [th EXCEPT ![runs + 1] = [NoThread EXCEPT !.pc = "started"]]
    /\ ui' = [ui EXCEPT !.capture_worker = runs + 1, !.start_enabled = FALSE,
                        !.stop_enabled = TRUE]
    /\ UNCHANGED <<sessions, ThOthers>>

\* MainWindow.stop_capture up to the wait of CaptureWorker.stop: with a worker,
\* self.running = False and the UI thread blocks in wait(3000); without one,
\* the buttons are restored at once
stop_capture_begins(u, t) ==
    IF u.capture_worker # 0
    THEN [ui |-> [u EXCEPT !.waiting = u.capture_worker, !.waited = 0],
          th |-> [t EXCEPT ![u.capture_worker].running = FALSE,
                           ![u.capture_worker].stop_requested = TRUE]]
    ELSE [ui |-> [u EXCEPT !.start_enabled = TRUE, !.stop_enabled = FALSE],
          th |-> t]

\* the Stop button
ThClickStop ==
    /\ ui.stop_enabled
    /\ ui.waiting = 0
    /\ \E r \in {stop_capture_begins(ui, th)} : ui' = r.ui /\ th' = r.th
    /\ UNCHANGED <<runs, sessions, ThOthers>>

\* MainWindow.show_error, the slot of a queued error_occurred: the dialog, then
\* stop_capture on whatever self.capture_worker is by then
ThShowError ==
    /\ ui.pending_errors > 0
    /\ ui.waiting = 0
    /\ \E r \in {stop_capture_begins([ui EXCEPT !.pending_errors = @ - 1], th)} :
           ui' = r.ui /\ th' = r.th
    /\ UNCHANGED <<runs, sessions, ThOthers>>

\* wait(3000) returns, the thread finished or the three seconds over, and
\* stop_capture goes on: capture_worker = None, Start enabled, Stop disabled
ThWaitReturns ==
    /\ ui.waiting # 0
    /\ th[ui.waiting].pc = "finished" \/ ui.waited = WaitLimit
    /\ ui' = [ui EXCEPT !.capture_worker = 0, !.start_enabled = TRUE,
                        !.stop_enabled = FALSE, !.waiting = 0, !.waited = 0]
    /\ UNCHANGED <<runs, th, sessions, ThOthers>>

\* CaptureWorker.run, its first statement: self.running = True
ThRunBegin(w) ==
    /\ th[w].pc = "started"
    /\ th' = [th EXCEPT ![w].pc = "init", ![w].running = TRUE]
    /\ UNCHANGED <<runs, ui, sessions, ThOthers>>

\* CaptureWorker.run from the ScreenCapture constructor to the loop: the
\* constructor raises, or the resolution is out of tolerance (both report an
\* error and leave through the finally), or the session is started
ThRunInit(w) ==
    /\ th[w].pc = "init"
    /\ \E ctor_raises \in BOOLEAN, res \in Resolutions :
         IF ctor_raises
         THEN /\ th' = [th EXCEPT ![w].pc = "cleanup", ![w].exit = "startup"]
              /\ ui' = [ui EXCEPT !.pending_errors = @ + 1]
              /\ UNCHANGED sessions
         ELSE IF resolution_mismatch(res[1], res[2])
         THEN /\ th' = [th EXCEPT ![w].pc = "cleanup", ![w].exit = "startup",
                                  ![w].screen_capture = "open"]
              /\ ui' = [ui EXCEPT !.pending_errors = @ + 1]
              /\ UNCHANGED sessions
         ELSE \E started \in {start_session(DB)} :
              /\ th' = [th EXCEPT ![w].pc = "test", ![w].screen_capture = "open",
                                  ![w].session_id = started.id]
              /\ sessions' = started.db.sessions
              /\ UNCHANGED ui
    /\ UNCHANGED <<runs, ThOthers>>

\* while self.running: a tick begins, or the loop is left for the finally
ThLoopTest(w) ==
    /\ th[w].pc = "test"
    /\ th' = IF th[w].running
             THEN [th EXCEPT ![w].pc = "tick", ![w].busy = 0,
                             ![w].tick_after_stop = @ \/ th[w].stop_requested]
             ELSE [th EXCEPT ![w].pc = "cleanup", ![w].exit = "stop"]
    /\ UNCHANGED <<runs, ui, sessions, ThOthers>>

\* the tick in progress ends: capture_full_screen or _process_frame raised and
\* the except of run reports it, or the loop goes back to its test
ThTickEnd(w) ==
    /\ th[w].pc = "tick"
    /\ \E raises \in BOOLEAN :
         IF raises
         THEN /\ th' = [th EXCEPT ![w].pc = "cleanup", ![w].exit = "exception",
                                  ![w].busy = 0]
              /\ ui' = [ui EXCEPT !.pending_errors = @ + 1]
         ELSE /\ th' = [th EXCEPT ![w].pc = "test", ![w].busy = 0]
              /\ UNCHANGED ui
    /\ UNCHANGED <<runs, sessions, ThOthers>>

\* CaptureWorker._cleanup, reading self.running as it is by then
ThCleanup(w) ==
    /\ th[w].pc = "cleanup"
    /\ sessions' = IF th[w].session_id # 0
                   THEN end_session(DB, th[w].session_id,
                                    IF ~th[w].running THEN "completed"
                                    ELSE "error").sessions
                   ELSE sessions
    /\ th' = [th EXCEPT ![w].pc = "finished",
                        ![w].screen_capture =
                            IF @ = "open" THEN "closed" ELSE @,
                        ![w].ended_notices = @ + 1]
    /\ UNCHANGED <<runs, ui, ThOthers>>

\* a thread at a statement that takes no time
Instant(w) == th[w].pc \in {"started", "init", "test", "cleanup"}

\* one second passes, for the tick in progress of each thread and for the wait
\* the UI thread is blocked in
ThTimePasses ==
    /\ \A w \in Threads : ~Instant(w)
    /\ \A w \in Threads : th[w].pc = "tick" => th[w].busy < MaxTick
    /\ \E w \in Threads : th[w].pc = "tick"
    /\ ui.waiting # 0 => ui.waited < WaitLimit /\ th[ui.waiting].pc # "finished"
    /\ th' = [w \in Threads |->
                 IF th[w].pc = "tick" THEN [th[w] EXCEPT !.busy = @ + 1] ELSE th[w]]
    /\ ui' = IF ui.waiting # 0 THEN [ui EXCEPT !.waited = @ + 1] ELSE ui
    /\ UNCHANGED <<runs, sessions, ThOthers>>

\* the steps of the worker thread w
ThWorker(w) ==
    ThRunBegin(w) \/ ThRunInit(w) \/ ThLoopTest(w) \/ ThTickEnd(w) \/ ThCleanup(w)

NextThreads ==
    \/ ThStartCapture
    \/ ThClickStop
    \/ ThShowError
    \/ ThWaitReturns
    \/ ThTimePasses
    \/ \E w \in Threads : ThRunBegin(w)
    \/ \E w \in Threads : ThRunInit(w)
    \/ \E w \in Threads : ThLoopTest(w)
    \/ \E w \in Threads : ThTickEnd(w)
    \/ \E w \in Threads : ThCleanup(w)

SpecThreads == Init /\ [][NextThreads]_vars

\* the operating system schedules every started thread, a tick ends, and the
\* wait of stop returns; the user owes the program no click
SpecThreadsLive ==
    /\ Init
    /\ [][NextThreads]_vars
    /\ \A w \in Threads : WF_vars(ThWorker(w))
    /\ WF_vars(ThWaitReturns)

\* the run of thread w is inside its loop
InLoop(w) == th[w].pc \in {"test", "tick"}

\* C21: once stop is requested of a worker, it starts no further tick and it
\* eventually terminates; and a worker that has terminated, by stop, by an
\* exception in a tick or by a startup failure, has released the screen
\* capture it acquired and has emitted "Capture session ended" exactly once.
C21_CooperativeStop ==
    /\ [][\A w \in Threads :
            th[w].stop_requested /\ th[w].pc # "tick" => th'[w].pc # "tick"]_vars
    /\ \A w \in Threads : th[w].stop_requested ~> th[w].pc = "finished"
    /\ [](\A w \in Threads :
            th[w].pc = "finished" =>
                th[w].screen_capture # "open" /\ th[w].ended_notices = 1)

\* C21, the input that fails: stop was requested of a worker before its run
\* wrote self.running = True, the wait of stop has timed out, and the worker
\* is in a tick it began after the request
C21_TickAfterStop ==
    \E w \in Threads :
        /\ th[w].stop_requested
        /\ th[w].tick_after_stop
        /\ th[w].pc = "tick"
        /\ th[w].running
        /\ ui.capture_worker # w
        /\ ui.waiting = 0

\* C21, the part that holds: every exit path goes through _cleanup, which
\* releases the screen capture and emits the notification once
C21_ReleasedOnExit ==
    \A w \in Threads :
        /\ th[w].pc = "finished" =>
               th[w].screen_capture # "open" /\ th[w].ended_notices = 1
        /\ th[w].pc # "finished" => th[w].ended_notices = 0

\* C21, the part that holds: a stop requested once run has begun is obeyed
C21_StopAfterBeginObeyed ==
    [][\A w \in Threads :
          th[w].stop_requested /\ ~th[w].running /\ th[w].pc \notin {"started", "tick"}
              => th'[w].pc # "tick"]_vars

\* C29: the session of a worker that has left its loop is ended exactly once,
\* with status 'completed' exactly when the loop was left because stop was
\* requested and 'error' exactly when it was left because of an exception.
C29_EndedOnceWithCause ==
    \A w \in Threads :
        th[w].pc = "finished" /\ th[w].session_id # 0 =>
            LET s == sessions[th[w].session_id]
            IN /\ s.ended = 1
               /\ s.status = "completed" <=> th[w].exit = "stop"
               /\ s.status = "error" <=> th[w].exit = "exception"

\* C29, the input that fails: stop was requested during a tick, the tick then
\* raised, and the session of the loop the exception ended is 'completed'
C29_ExceptionEndedCompleted ==
    \E w \in Threads :
        /\ th[w].pc = "finished"
        /\ th[w].exit = "exception"
        /\ th[w].stop_requested
        /\ th[w].session_id # 0
        /\ sessions[th[w].session_id].status = "completed"
        /\ sessions[th[w].session_id].ended = 1

\* C29, the part that holds: the session is ended exactly once, a loop left
\* by its test is 'completed', and one no stop was requested of is 'error'
C29_EndedOnce ==
    \A w \in Threads :
        th[w].session_id # 0 =>
            LET s == sessions[th[w].session_id]
            IN /\ s.ended = (IF th[w].pc = "finished" THEN 1 ELSE 0)
               /\ th[w].pc = "finished" => s.status \in {"completed", "error"}
               /\ th[w].pc = "finished" /\ th[w].exit = "stop" =>
                      s.status = "completed"
               /\ th[w].pc = "finished" /\ ~th[w].stop_requested =>
                      s.status = "error" /\ th[w].exit = "exception"

\* C30: at most one capture loop is running at any time, so no two ticks are
\* in progress together and at most one capture session is active.
C30_OneLoopAtATime ==
    /\ Cardinality({w \in Threads : InLoop(w)}) <= 1
    /\ Cardinality({w \in Threads : th[w].pc = "tick"}) <= 1
    /\ Cardinality({s \in 1..Len(sessions) : sessions[s].status = "active"}) <= 1

\* C30, the input that fails: the wait of stop timed out on a worker whose
\* tick took longer than three seconds, Start was clicked again, and both
\* loops are in a tick, each with its own active session
C30_TwoTicks ==
    \E v, w \in Threads :
        /\ v # w
        /\ th[v].pc = "tick" /\ th[v].stop_requested /\ ~th[v].running
        /\ th[v].busy >= WaitLimit
        /\ th[w].pc = "tick" /\ ~th[w].stop_requested
        /\ ui.capture_worker = w
        /\ sessions[th[v].session_id].status = "active"
        /\ sessions[th[w].session_id].status = "active"

\* C30, the part that holds: the window keeps at most one worker, and a
\* second loop runs only beside a worker whose stop was requested
C30_OneLoopKept ==
    Cardinality({w \in Threads : InLoop(w) /\ ~th[w].stop_requested}) <= 1

====
